---- MODULE Spec2Model ----
(***************************************************************************)
(* efgrabber: the download manager's work store, its dispatcher            *)
(* (DownloadManager::download_worker), the download tasks it submits to    *)
(* the thread pool, the producer workers and the controller surface        *)
(* (start / start_download_only / stop / pause / resume / setters).        *)
(***************************************************************************)
EXTENDS Integers, Sequences, FiniteSets, TLC

(***************************************************************************)
(* Bounds of the model.                                                    *)
(***************************************************************************)
NumItems == 2        \* rows of the files table that can exist
MaxCap == 2          \* largest value given to set_max_concurrent_downloads
MaxRetrySetting == 2 \* largest value given to set_retry_attempts
MaxRuns == 1         \* runs (start calls) of one manager object
MaxTicks == 2        \* clock advances (SpecTimed)
MaxPageJobs == 1     \* page jobs of the external producer in flight
MaxCapChanges == 1   \* calls of set_max_concurrent_downloads during a run
MaxRestarts == 1     \* further start calls after the first run (SpecRestart)
MaxBodyLength == 2   \* largest response body, in bytes
MaxBackoffRetry == 10 \* largest retry_count of a stored row (SpecBackoff)
ProbeUpperBound == 7 \* the probe's first high (100000 in scraper_worker, line 372)
MaxConcurrentScrapes == 2 \* max_concurrent_scrapes_
MaxAnchors == 2 \* longest page handed to extract_pdf_links, in anchors
MaxKey == 2 \* the file ids a page can name
MIN_DATA_SET == 1
MAX_DATA_SET == 12
MaxId == 4 \* the largest file id of an enumerated range
BatchSize == 2 \* batch_size (1000 in brute_force_worker, line 477)
MaxSitePage == 3 \* the last page of the largest site of SpecScrape
MaxPoolThreads == 2 \* worker threads of the largest ThreadPool (SpecPool)
MaxPoolTasks == 3 \* tasks handed to a ThreadPool (SpecPool)
MaxViews == 2 \* views of the largest ScraperPool (SpecScraperPool)
MaxExpected == 3 \* the largest totalExpected handed to startScrapingPages
MaxWireClock == 5 \* steady_clock runs up to MaxWireClock milliseconds (SpecWire)
MaxBatch == 2        \* records of one add_files_batch call (SpecStore)
NowBase == 1000      \* system_clock seconds since the epoch when the model starts
TickSeconds == 15    \* seconds added by one clock advance

\* current_config_.id, the data-set of the run, and another data-set
CurrentDataSet == MIN_DATA_SET
OtherDataSet == MIN_DATA_SET + 1
Items == 1..NumItems
Caps == 1..MaxCap
RetrySettings == 0..MaxRetrySetting

Modes == {"SCRAPER", "BRUTE_FORCE", "HYBRID"}
Statuses == {"PENDING", "IN_PROGRESS", "COMPLETED", "FAILED", "NOT_FOUND", "SKIPPED"}
Terminal == {"COMPLETED", "NOT_FOUND", "SKIPPED"}
Absent == "ABSENT"

\* The ways DownloadManager::download_file ends.
Outcomes == {"skipped", "http404", "blocked", "completed", "empty", "failed", "exception"}

\* The url column: the url a producer builds for a key, another url for the
\* same key, and the value standing for "no row".
NoUrl == 0
FirstUrl == 1
OtherUrl == 2
Urls == {FirstUrl, OtherUrl}

\* Sizes of a non-empty response body.
BodyLengths == 1..MaxBodyLength

\* What is at a row's local_path: "unknown" is a path the program has not
\* looked at (or has left in an exception): whatever is there shows when a task
\* next looks.
LocalFiles == {"unknown", "absent", "empty", "content"}

VARIABLES
    status,                    \* files.status per row (Absent: no row)
    retry_count,               \* files.retry_count
    updated_at,                \* files.updated_at
    now,                       \* system_clock::now(), seconds
    running,                   \* running_
    paused,                    \* paused_
    stop_requested,            \* stop_requested_
    external_scraping_active,  \* external_scraping_active_
    current_mode,              \* current_mode_
    max_concurrent_downloads,  \* max_concurrent_downloads_
    max_retry_attempts,        \* max_retry_attempts_
    active_downloads,          \* active_downloads_
    scraper_thread,            \* "none" (not joinable), "running", "finished"
    brute_force_thread,        \* likewise
    download_joinable,         \* download_thread_.joinable()
    dpc,                       \* position of download_worker
    max_downloads,             \* download_worker local
    want,                      \* download_worker local
    files,                     \* download_worker local: rows taken this tick
    pool_workers,              \* download_pool_: number of worker threads
    pool_stop,                 \* download_pool_: stop_
    pool_tasks,                \* download_pool_: tasks_ (queue of submitted rows)
    task_running,              \* per row: tasks inside download_file
    task_releasing,            \* per row: tasks past download_file, before active_downloads_--
    stop_pc,                   \* position of stop()
    on_complete_calls,         \* on_complete invocations since the last start
    runs,                      \* start calls so far
    ticks,                     \* clock advances so far
    cap_lowered,               \* the cap was lowered since the last start
    page_jobs,                 \* external producer: page jobs started and not yet done
    cap_changes,               \* calls of set_max_concurrent_downloads since the last start
    file_size,                 \* files.file_size
    url,                       \* files.url
    local_file,                \* the file system at each row's local_path
    overwrite_existing,        \* overwrite_existing_
    bytes_this_session,        \* bytes_this_session_
    sw,                        \* scraper_worker: position and the locals low, high,
                               \* detected_max_page
    pages,                     \* pages table: the page numbers that have a row
    scraped_pages,             \* pages table: the page numbers with scraped = 1
    total_pages,               \* stats_.total_pages
    last_valid_page,           \* the site: its pages 0..last_valid_page are valid
    max_page_index,            \* current_config_.max_page_index
    on_error_calls,            \* the calls of callbacks_.on_error so far
    scraper_id,                \* Scraper::config_.id
    html,                      \* the page handed to extract_pdf_links: its anchors
    stable_sort,               \* the build: whether its std::sort keeps equal links in order
    links,                     \* what extract_pdf_links returned
    links_again,               \* what a second call on the same page returned
    fetched,                   \* download_file: what the last task of a key found and fetched
    bf,                        \* brute_force_worker: position, the locals id and batch,
                               \* brute_force_current_, and the ids it has looked up
    checkpoint,                \* progress table: brute_force_current (0 without a row)
    first_file_id,             \* current_config_.first_file_id
    last_file_id,              \* current_config_.last_file_id
    bf_rows,                   \* files table: the ids of the enumerated range that have a row
    failing_pages,             \* the site: the pages whose fetch fails at present
    data_set,                  \* files.data_set per row
    scraper_pool,              \* a ScraperPool: active_, maxPage_, pendingPages_,
                               \* nextPageToAssign_, the three page sets, its views, whether
                               \* a dispatchNext is scheduled, the list it was started with
                               \* and the allPagesComplete signals emitted
    tp,                        \* a ThreadPool: stop_, tasks_, active_tasks_, completed_tasks_,
                               \* its worker threads, the thread that calls it, and what became
                               \* of each task
    wire                       \* download_file's timing block: steady_clock, the tasks between
                               \* its two halves, first_active_time_, last_active_time_,
                               \* active_transfer_wall_ms_, any_download_active_

vars == <<status, retry_count, updated_at, now, running, paused, stop_requested,
          external_scraping_active, current_mode, max_concurrent_downloads,
          max_retry_attempts, active_downloads, scraper_thread, brute_force_thread,
          download_joinable, dpc, max_downloads, want, files, pool_workers,
          pool_stop, pool_tasks, task_running, task_releasing, stop_pc,
          on_complete_calls, runs, ticks, cap_lowered, page_jobs, cap_changes,
          file_size, url, local_file, overwrite_existing, bytes_this_session,
          sw, pages, scraped_pages, total_pages, last_valid_page, max_page_index,
          on_error_calls, scraper_id, html, stable_sort, links, links_again, fetched,
          bf, checkpoint, first_file_id, last_file_id, bf_rows, failing_pages,
          data_set, scraper_pool, tp, wire>>

storeVars == <<status, retry_count, updated_at, file_size, url>>
sessionVars == <<local_file, overwrite_existing, bytes_this_session>>
probeEnvVars == <<last_valid_page, max_page_index, on_error_calls, failing_pages>>
probeVars == <<sw, pages, scraped_pages, total_pages, probeEnvVars>>
extractVars == <<scraper_id, html, stable_sort, links, links_again>>
fetchVars == <<fetched>>
enumEnvVars == <<checkpoint, first_file_id, last_file_id, bf_rows>>
enumVars == <<bf, enumEnvVars>>
componentVars == <<data_set, scraper_pool, tp, wire>>
otherWorkerVars == <<extractVars, fetchVars, enumVars, componentVars>>
workerVars == <<probeVars, otherWorkerVars>>
flagVars == <<running, paused, stop_requested>>
managerVars == <<status, retry_count, updated_at, file_size, url, data_set, now, ticks, local_file,
                 overwrite_existing, bytes_this_session, probeVars, extractVars, fetchVars,
                 enumVars, running, paused, stop_requested, external_scraping_active,
                 current_mode, max_concurrent_downloads, max_retry_attempts, cap_lowered,
                 page_jobs, cap_changes, active_downloads, scraper_thread,
                 brute_force_thread, download_joinable, dpc, max_downloads, want, files,
                 pool_workers, pool_stop, pool_tasks, task_running, task_releasing, stop_pc,
                 on_complete_calls, runs>>
cfgVars == <<current_mode, max_concurrent_downloads, max_retry_attempts, cap_lowered,
            page_jobs, cap_changes>>
threadVars == <<scraper_thread, brute_force_thread, download_joinable>>
dispVars == <<dpc, max_downloads, want, files>>
poolVars == <<pool_workers, pool_stop, pool_tasks>>
taskVars == <<task_running, task_releasing>>
clockVars == <<now, ticks>>

(***************************************************************************)
(* Helpers.                                                                *)
(***************************************************************************)
Min(a, b) == IF a <= b THEN a ELSE b

RECURSIVE SumOver(_, _)
SumOver(f, S) == IF S = {} THEN 0
                 ELSE LET x == CHOOSE y \in S : TRUE
                      IN f[x] + SumOver(f, S \ {x})

RECURSIVE AscendingSeq(_)
\* the rows of S as a sequence, by row id
AscendingSeq(S) == IF S = {} THEN <<>>
                   ELSE LET m == CHOOSE x \in S : \A y \in S : x <= y
                        IN <<m>> \o AscendingSeq(S \ {m})

CountInSeq(s, i) == Cardinality({k \in 1..Len(s) : s[k] = i})

\* worker threads of the pool that are executing a task
BusyWorkers == SumOver(task_running, Items) + SumOver(task_releasing, Items)

\* tasks of row i that have not yet written the row's final status
HoldersOf(i) == CountInSeq(pool_tasks, i) + task_running[i]

StatusCount(s) == Cardinality({i \in Items : status[i] = s})

(***************************************************************************)
(* calculate_s_curve_backoff: int64(5 + 595 / (1 + exp(-(retry_count - 5)))),*)
(* 0 for retry_count <= 0; the values of the expression for 1..12.         *)
(***************************************************************************)
\* A back-off that doubles with every retry: 5 * 2^retry_count seconds.
calculate_exponential_backoff(retry) == IF retry <= 0 THEN 0 ELSE 5 * (2 ^ retry)

SCurveTable == <<15, 33, 75, 165, 302, 439, 529, 571, 589, 596, 598, 599>>

calculate_s_curve_backoff(retry) ==
    IF retry <= 0 THEN 0
    ELSE IF retry <= Len(SCurveTable) THEN SCurveTable[retry]
    ELSE 599

(***************************************************************************)
(* Database.                                                               *)
(***************************************************************************)
\* A get_pending_files whose WHERE clause also matched IN_PROGRESS rows.
PendingRowsAnyStatus == {i \in Items : status[i] \in {"PENDING", "IN_PROGRESS"}}

\* A get_pending_files whose WHERE clause also matched COMPLETED rows.
PendingRowsWithCompleted == {i \in Items : status[i] \in {"PENDING", "COMPLETED"}}

\* Database::get_pending_files: the rows a query for PENDING can return
PendingRows == {i \in Items : status[i] = "PENDING"}

\* Database::get_failed_files(max_retries, limit): FAILED rows with
\* retry_count < max_retries
FailedRows(max_retries) ==
    {i \in Items : status[i] = "FAILED" /\ retry_count[i] < max_retries}

\* The updated_at of a FileRecord returned by get_failed_files: the query does
\* not select the column, so the field keeps its default-constructed value,
\* the epoch.
RecordUpdatedAt(i) == 0

\* A get_pending_files without its LIMIT.
PendingTakeUnlimited(wantv, avail) == avail

\* Database::get_pending_files(limit): how many of the avail matching rows the
\* query returns (LIMIT ?)
PendingTake(wantv, avail) == Min(wantv, avail)

\* Database::update_file_status(id, status, error_msg, file_size)
UpdateFileStatus(i, s, size) ==
    /\ status' = [status EXCEPT ![i] = s]
    /\ file_size' = [file_size EXCEPT ![i] = size]
    /\ updated_at' = [updated_at EXCEPT ![i] = now]
    /\ UNCHANGED url

\* The files table as a value.
Store ==
    [status |-> status, retry_count |-> retry_count, updated_at |-> updated_at,
     file_size |-> file_size, url |-> url]

\* The batches add_files_batch can be given: up to MaxBatch records, each a
\* key with the url found for it (a key can occur twice).
Batches == UNION {[1..n -> [key : Items, url : Urls]] : n \in 0..MaxBatch}

\* The table with the row INSERT writes for rec: status PENDING as bound by the
\* callers, the url of the record, and the column defaults.
WithInsertedRow(db, rec, t) ==
    [status |-> [db.status EXCEPT ![rec.key] = "PENDING"],
     retry_count |-> [db.retry_count EXCEPT ![rec.key] = 0],
     updated_at |-> [db.updated_at EXCEPT ![rec.key] = t],
     file_size |-> [db.file_size EXCEPT ![rec.key] = 0],
     url |-> [db.url EXCEPT ![rec.key] = rec.url]]

\* An INSERT OR REPLACE of one record.
InsertOrReplaceOne(db, rec, t) == WithInsertedRow(db, rec, t)

\* lines 151-154 and 171, with UNIQUE(data_set, file_id): INSERT OR IGNORE of
\* one record writes a row only if the key has none
InsertOrIgnoreOne(db, rec, t) ==
    IF db.status[rec.key] = Absent THEN WithInsertedRow(db, rec, t) ELSE db

RECURSIVE InsertOrIgnore(_, _, _)
\* Database::add_files_batch, lines 164-177: the records in order
InsertOrIgnore(db, records, t) ==
    IF records = <<>> THEN db
    ELSE InsertOrIgnore(InsertOrIgnoreOne(db, Head(records), t), Tail(records), t)

\* Database::add_files_batch, one transaction
AddFilesBatchRecords(records) ==
    LET db == InsertOrIgnore(Store, records, now)
    IN /\ status' = db.status
       /\ retry_count' = db.retry_count
       /\ updated_at' = db.updated_at
       /\ file_size' = db.file_size
       /\ url' = db.url

\* Database::add_files_batch (INSERT OR IGNORE) of a key that has no row yet
AddFilesBatch(i) ==
    /\ status[i] = Absent
    /\ status' = [status EXCEPT ![i] = "PENDING"]
    /\ retry_count' = [retry_count EXCEPT ![i] = 0]
    /\ updated_at' = [updated_at EXCEPT ![i] = now]
    /\ file_size' = [file_size EXCEPT ![i] = 0]
    /\ url' = [url EXCEPT ![i] = FirstUrl]

\* Database::get_stats as used by the exit check
StatsPendingOrInProgress ==
    \E i \in Items : data_set[i] = CurrentDataSet /\ status[i] \in {"PENDING", "IN_PROGRESS"}


(***************************************************************************)
(* Initial state: a constructed and initialized manager, configured by its *)
(* caller (set_max_concurrent_downloads, set_retry_attempts), on a store   *)
(* that may hold rows of an earlier process: PENDING rows, and IN_PROGRESS *)
(* rows of a process that died while downloading them.                     *)
(***************************************************************************)
(***************************************************************************)
(* Scraper::extract_pdf_links.  An anchor of the page is its href: the     *)
(* form of the path, the separator and the number after "DataSet", and the *)
(* 8-digit file id in the file name, which ends in .pdf.                   *)
(***************************************************************************)
DataSets == MIN_DATA_SET..MAX_DATA_SET
HrefForms == {"absolute", "root"}
Separators == {"%20", " "}
Anchors == [form : HrefForms, sep : Separators, folder : DataSets, key : 1..MaxKey]
HtmlPages == UNION {[1..n -> Anchors] : n \in 0..MaxAnchors}
\* The result of a call, and the value before the call
NotCalled == [called |-> FALSE, list |-> <<>>]
Returned(list) == [called |-> TRUE, list |-> list]
JusticeGov == "https://www.justice.gov"

\* std::to_string of a positive number: its decimal digits
RECURSIVE to_string(_)
to_string(n) == IF n < 10 THEN <<n>> ELSE Append(to_string(n \div 10), n % 10)

IsPrefix(p, s) == Len(p) <= Len(s) /\ SubSeq(s, 1, Len(p)) = p

\* Scraper::build_pdf_regex applied to one href: "DataSet", then %20 or a
\* white space, then the digits of the data set, then any characters that
\* are no quote, then ".pdf".  The digits of the folder and the rest of the
\* path follow the separator, so the pattern matches exactly when the digits
\* of the data set are the first digits of the folder.
PdfRegexMatches(data_set_id, a) ==
    /\ a.sep \in {"%20", " "}
    /\ IsPrefix(to_string(data_set_id), to_string(a.folder))

\* extract_pdf_links, lines 47-57: the full URL of a href.  A root-relative
\* path gets the host in front; an absolute href, which names this host in
\* the pages modelled, is kept.  %20 is kept (lines 59-64).
FullUrl(a) == [host |-> JusticeGov, sep |-> a.sep, folder |-> a.folder, key |-> a.key]

\* extract_pdf_links, lines 36-71: the links of the matching anchors, in page order
RECURSIVE MatchedLinks(_, _)
MatchedLinks(page, data_set_id) ==
    IF page = <<>> THEN <<>>
    ELSE LET rest == MatchedLinks(Tail(page), data_set_id)
             a == Head(page)
         IN IF PdfRegexMatches(data_set_id, a)
            THEN <<[file_id |-> a.key, url |-> FullUrl(a)]>> \o rest
            ELSE rest

\* std::sort by file_id, as an insertion from the left: a stable build puts a
\* link behind the links of the same file id, another build in front of them
RECURSIVE InsertLink(_, _, _)
InsertLink(l, sorted, stable) ==
    IF sorted = <<>> THEN <<l>>
    ELSE IF Head(sorted).file_id < l.file_id \/ (stable /\ Head(sorted).file_id = l.file_id)
         THEN <<Head(sorted)>> \o InsertLink(l, Tail(sorted), stable)
         ELSE <<l>> \o sorted

RECURSIVE SortLinks(_, _)
SortLinks(ls, stable) ==
    IF ls = <<>> THEN <<>>
    ELSE InsertLink(ls[Len(ls)], SortLinks(SubSeq(ls, 1, Len(ls) - 1), stable), stable)

\* A std::unique that keeps every link
UniqueKeepingAll(sorted) == sorted

\* std::unique by file_id: the first link of every run of equal file ids
RECURSIVE UniqueLinks(_)
UniqueLinks(sorted) ==
    IF Len(sorted) <= 1 THEN sorted
    ELSE IF sorted[1].file_id = sorted[2].file_id
         THEN UniqueLinks(<<sorted[1]>> \o SubSeq(sorted, 3, Len(sorted)))
         ELSE <<sorted[1]>> \o UniqueLinks(Tail(sorted))

\* Scraper::extract_pdf_links
extract_pdf_links(page, data_set_id, stable) ==
    UniqueLinks(SortLinks(MatchedLinks(page, data_set_id), stable))

\* A first call of extract_pdf_links on the page
ExtractPdfLinks ==
    /\ ~links.called
    /\ links' = Returned(extract_pdf_links(html, scraper_id, stable_sort))
    /\ UNCHANGED <<storeVars, clockVars, sessionVars, probeVars, fetchVars, enumVars, componentVars, scraper_id, html,
                   stable_sort, links_again, flagVars, external_scraping_active, cfgVars,
                   active_downloads, threadVars, dispVars, poolVars, taskVars, stop_pc,
                   on_complete_calls, runs>>

\* A second call on the same page
ExtractPdfLinksAgain ==
    /\ links.called
    /\ ~links_again.called
    /\ links_again' = Returned(extract_pdf_links(html, scraper_id, stable_sort))
    /\ UNCHANGED <<storeVars, clockVars, sessionVars, probeVars, fetchVars, enumVars, componentVars, scraper_id, html,
                   stable_sort, links, flagVars, external_scraping_active, cfgVars,
                   active_downloads, threadVars, dispVars, poolVars, taskVars, stop_pc,
                   on_complete_calls, runs>>

\* brute_force_worker: the locals when the thread starts
BruteForceWorkerEntry ==
    [pc |-> "begin", read |-> 0, id |-> 0, batch |-> <<>>, current |-> 0, checked |-> <<>>]

\* scraper_worker, lines 367-372: the locals when the thread starts
ScraperWorkerEntry ==
    [pc |-> "probe", low |-> 0, high |-> ProbeUpperBound, detected_max_page |-> -1,
     taken |-> {}]

\* The manager after construction and initialize, and the clock.
InitManager ==
    /\ now = NowBase
    /\ running = FALSE
    /\ paused = FALSE
    /\ stop_requested = FALSE
    /\ external_scraping_active = FALSE
    /\ current_mode = "SCRAPER"
    /\ active_downloads = 0
    /\ scraper_thread = "none"
    /\ brute_force_thread = "none"
    /\ download_joinable = FALSE
    /\ dpc = "none"
    /\ max_downloads = 0
    /\ want = 0
    /\ files = <<>>
    /\ pool_workers = 0
    /\ pool_stop = FALSE
    /\ pool_tasks = <<>>
    /\ task_running = [i \in Items |-> 0]
    /\ task_releasing = [i \in Items |-> 0]
    /\ stop_pc = "idle"
    /\ on_complete_calls = 0
    /\ runs = 0
    /\ ticks = 0
    /\ cap_lowered = FALSE
    /\ page_jobs = 0
    /\ cap_changes = 0
    /\ local_file = [i \in Items |-> "unknown"]
    /\ overwrite_existing = FALSE
    /\ bytes_this_session = 0
    /\ sw = ScraperWorkerEntry
    /\ total_pages = 0
    /\ on_error_calls = 0

\* A pages table without rows, a site with one page, and the default
\* configuration (make_data_set_config: max_page_index = -1).
InitFreshSite ==
    /\ pages = {}
    /\ scraped_pages = {}
    /\ last_valid_page = 0
    /\ max_page_index = -1
    /\ failing_pages = {}

\* What download_file knows when it ends: whether it found a file with
\* content at local_path, whether it fetched, and the DownloadResult.
NoFetch == [found |-> FALSE, fetch |-> FALSE, success |-> FALSE, http_code |-> 0,
            content_length |-> 0]

\* No page has been handed to a Scraper.
InitNoPage ==
    /\ scraper_id = MIN_DATA_SET
    /\ html = <<>>
    /\ stable_sort = TRUE
    /\ links = NotCalled
    /\ links_again = NotCalled

\* No task has run.
InitNoFetch == fetched = [i \in Items |-> NoFetch]

\* The enumerator has not run: no checkpoint, the range of
\* make_data_set_config, and no row in it.
InitNoEnumeration ==
    /\ bf = BruteForceWorkerEntry
    /\ checkpoint = 0
    /\ first_file_id = 0
    /\ last_file_id = 0
    /\ bf_rows = {}

\* No task has reached the timing block of download_file: the members as
\* the constructor leaves them (a default time_point is the clock's epoch),
\* no time with a download active so far.
InitNoTransfer ==
    wire = [clock |-> 0, active |-> {}, first_active_time |-> 0, last_active_time |-> 0,
            active_transfer_wall_ms |-> 0, any_download_active |-> FALSE, busy_ms |-> 0]

\* ThreadPool::ThreadPool(num_threads): the workers wait, nothing is queued;
\* no task has been handed to the pool.
PoolTaskIds == 1..MaxPoolTasks
ThreadPoolOf(num_threads) ==
    [stop |-> FALSE, tasks |-> <<>>, active_tasks |-> 0, completed_tasks |-> 0,
     workers |-> [w \in 1..num_threads |-> [pc |-> "wait", task |-> 0]],
     total_tasks |-> 0,
     caller |-> "idle", shutdown_returned |-> FALSE, wait_all_returned |-> FALSE,
     before_wait_all |-> {}, at_shutdown |-> {},
     kind |-> [t \in PoolTaskIds |-> "none"],
     outcome |-> [t \in PoolTaskIds |-> "none"],
     caught |-> {}]

\* The pool outside the runs a specification is about: one worker
InitOnePool == tp = ThreadPoolOf(1)

\* Every row is of the run's data-set.
InitOneDataSet == data_set = [i \in Items |-> CurrentDataSet]

\* ScraperPool::ScraperPool and setPoolSize(size) on a pool that is not
\* active: size idle views, nothing to scrape.
ScraperPoolOf(size) ==
    [active |-> FALSE, maxPage |-> -1, pendingPages |-> <<>>, nextPageToAssign |-> 0,
     scrapedPages |-> {}, inProgressPages |-> {}, failedPages |-> {},
     views |-> [v \in 1..size |-> [busy |-> FALSE, currentPage |-> -1]],
     dispatch_scheduled |-> FALSE, listed |-> {}, allPagesComplete |-> 0]

\* The scraper pool outside the runs a specification is about: one view
InitOneView == scraper_pool = ScraperPoolOf(1)

\* The producers' and the tasks' state outside the runs a specification is
\* about
InitIdleProducers == InitNoPage /\ InitNoFetch /\ InitNoEnumeration /\ InitNoTransfer

\* The components and the store's data-sets outside the runs a
\* specification is about
InitIdleComponents == InitOnePool /\ InitOneView /\ InitOneDataSet

\* The workers' state outside the runs a specification is about
InitIdleWorkers == InitIdleProducers /\ InitIdleComponents

\* A store without rows
InitEmptyStore ==
    /\ status = [i \in Items |-> Absent]
    /\ retry_count = [i \in Items |-> 0]
    /\ updated_at = [i \in Items |-> 0]
    /\ file_size = [i \in Items |-> 0]
    /\ url = [i \in Items |-> NoUrl]
    /\ max_concurrent_downloads = 1
    /\ max_retry_attempts = 1

Init ==
    /\ status \in [Items -> {Absent, "PENDING", "IN_PROGRESS"}]
    /\ retry_count = [i \in Items |-> 0]
    /\ updated_at = [i \in Items |-> NowBase]
    /\ file_size = [i \in Items |-> 0]
    /\ url = [i \in Items |-> IF status[i] = Absent THEN NoUrl ELSE FirstUrl]
    /\ max_concurrent_downloads \in Caps
    /\ max_retry_attempts \in RetrySettings
    /\ InitManager
    /\ InitFreshSite
    /\ InitIdleWorkers

\* A store of Failed rows with any retry counts up to MaxBackoffRetry, under a
\* retry setting that leaves each of them retryable.
InitBackoff ==
    /\ status = [i \in Items |-> "FAILED"]
    /\ retry_count \in [Items -> 0..MaxBackoffRetry]
    /\ updated_at = [i \in Items |-> NowBase]
    /\ file_size = [i \in Items |-> 0]
    /\ url = [i \in Items |-> FirstUrl]
    /\ max_concurrent_downloads = 1
    /\ max_retry_attempts = MaxBackoffRetry + 1
    /\ InitManager
    /\ InitFreshSite
    /\ InitIdleWorkers

(***************************************************************************)
(* Controller: DownloadManager::start, start_download_only, pause, resume, *)
(* the setters and stop.                                                   *)
(***************************************************************************)
\* No thread of an earlier run is left: start assigns the std::thread members
\* and replaces the pools (whose destructor joins the pool workers).
NoRunLeft ==
    /\ dpc \in {"none", "exited"}
    /\ stop_pc = "idle"
    /\ scraper_thread = "none" /\ brute_force_thread = "none" /\ ~download_joinable
    /\ pool_tasks = <<>> /\ BusyWorkers = 0

\* The part start and start_download_only share (lines 89-115 / 141-164).
BeginRun(mode) ==
    /\ current_mode' = mode
    /\ running' = TRUE
    /\ paused' = FALSE
    /\ stop_requested' = FALSE
    /\ pool_workers' = max_concurrent_downloads
    /\ pool_stop' = FALSE
    /\ pool_tasks' = <<>>
    /\ dpc' = "loop"
    /\ max_downloads' = 0
    /\ want' = 0
    /\ files' = <<>>
    /\ on_complete_calls' = 0
    /\ runs' = runs + 1
    /\ cap_lowered' = FALSE
    /\ cap_changes' = 0
    /\ bytes_this_session' = 0
    /\ total_pages' = 0
    /\ wire' = [wire EXCEPT !.active_transfer_wall_ms = 0, !.any_download_active = FALSE]
    /\ UNCHANGED <<data_set, scraper_pool, tp, storeVars, clockVars, local_file, overwrite_existing, pages,
                   scraped_pages, probeEnvVars, extractVars, fetchVars, enumEnvVars,
                   max_concurrent_downloads, max_retry_attempts, active_downloads, taskVars,
                   stop_pc, page_jobs>>

\* start, lines 83-131, as one of at most limit start calls
StartRun(mode, limit) ==
    /\ ~running
    /\ NoRunLeft
    /\ runs < limit
    /\ BeginRun(mode)
    /\ scraper_thread' = IF mode \in {"SCRAPER", "HYBRID"} THEN "running" ELSE "none"
    /\ brute_force_thread' = IF mode \in {"BRUTE_FORCE", "HYBRID"} THEN "running" ELSE "none"
    /\ download_joinable' = TRUE
    /\ sw' = IF mode \in {"SCRAPER", "HYBRID"} THEN ScraperWorkerEntry ELSE sw
    /\ bf' = IF mode \in {"BRUTE_FORCE", "HYBRID"} THEN BruteForceWorkerEntry ELSE bf
    /\ UNCHANGED external_scraping_active

Start(mode) == StartRun(mode, MaxRuns)

\* start called again on the same manager and store, after the run has ended
StartAgain(mode) ==
    /\ runs >= MaxRuns
    /\ StartRun(mode, MaxRuns + MaxRestarts)

\* start_download_only; with external = TRUE it is MainWindow::startBrowserScraping,
\* which sets the external-producer flag right before it.
StartDownloadOnlyRun(external, limit) ==
    /\ ~running
    /\ NoRunLeft
    /\ runs < limit
    /\ BeginRun("SCRAPER")
    /\ external_scraping_active' = (external \/ external_scraping_active)
    /\ UNCHANGED <<threadVars, sw, bf>>

StartDownloadOnly(external) == StartDownloadOnlyRun(external, MaxRuns)

\* start_download_only called again on the same manager and store
StartDownloadOnlyAgain ==
    /\ runs >= MaxRuns
    /\ StartDownloadOnlyRun(FALSE, MaxRuns + MaxRestarts)

Pause ==
    /\ running /\ ~paused
    /\ stop_pc = "idle"
    /\ paused' = TRUE
    /\ UNCHANGED <<storeVars, clockVars, sessionVars, workerVars, running, stop_requested, external_scraping_active,
                   cfgVars, active_downloads, threadVars, dispVars, poolVars, taskVars,
                   stop_pc, on_complete_calls, runs>>

\* pause_cv_.notify_all(): wakes the workers blocked in pause_cv_.wait at this
\* moment; a worker that has evaluated the wait's predicate and has not yet
\* blocked is not woken
NotifyAll == dpc' = IF dpc = "pause_blocked" THEN "loop" ELSE dpc

\* resume sets paused_ and notifies without holding pause_mutex_
Resume ==
    /\ running /\ paused
    /\ stop_pc = "idle"
    /\ paused' = FALSE
    /\ NotifyAll
    /\ UNCHANGED <<storeVars, clockVars, sessionVars, workerVars, running, stop_requested, external_scraping_active,
                   cfgVars, active_downloads, threadVars, max_downloads, want, files,
                   poolVars, taskVars, stop_pc, on_complete_calls, runs>>

\* set_max_concurrent_downloads during a run (before the run the caller's
\* setting is the initial value)
SetMaxConcurrentDownloads(n) ==
    /\ running
    /\ stop_pc = "idle"
    /\ cap_changes < MaxCapChanges
    /\ n # max_concurrent_downloads
    /\ max_concurrent_downloads' = n
    /\ cap_changes' = cap_changes + 1
    /\ cap_lowered' = (cap_lowered \/ n < max_concurrent_downloads)
    /\ UNCHANGED <<storeVars, clockVars, sessionVars, workerVars, flagVars, external_scraping_active, current_mode,
                   max_retry_attempts, active_downloads, threadVars, dispVars, poolVars,
                   taskVars, stop_pc, on_complete_calls, runs, page_jobs>>

\* set_overwrite_existing
SetOverwriteExisting(b) ==
    /\ b # overwrite_existing
    /\ overwrite_existing' = b
    /\ UNCHANGED <<storeVars, clockVars, local_file, bytes_this_session, workerVars, flagVars,
                   external_scraping_active, cfgVars, active_downloads, threadVars, dispVars,
                   poolVars, taskVars, stop_pc, on_complete_calls, runs>>

(***************************************************************************)
(* External producer: MainWindow's browser scraping. ScraperPool emits     *)
(* pageReady for each page and, right after the last one, allPagesComplete.*)
(***************************************************************************)
\* MainWindow::onScraperPageReady: hands the page to a background job
\* (QtConcurrent::run) while browser scraping is active
PageReady ==
    /\ external_scraping_active
    /\ running
    /\ stop_pc = "idle"
    /\ page_jobs < MaxPageJobs
    /\ page_jobs' = page_jobs + 1
    /\ UNCHANGED <<storeVars, clockVars, sessionVars, workerVars, flagVars, external_scraping_active, current_mode,
                   max_concurrent_downloads, max_retry_attempts, cap_lowered,
                   cap_changes, active_downloads, threadVars, dispVars, poolVars, taskVars,
                   stop_pc, on_complete_calls, runs>>

\* The background job: add_files_to_queue with the new key of the page
\* (DownloadManager::add_files_to_queue tests neither running_ nor the flag)
PageJobAdd(i) ==
    /\ page_jobs > 0
    /\ ~stop_requested
    /\ AddFilesBatch(i)
    /\ page_jobs' = page_jobs - 1
    /\ UNCHANGED <<clockVars, sessionVars, workerVars, flagVars, external_scraping_active, current_mode,
                   max_concurrent_downloads, max_retry_attempts, cap_lowered,
                   cap_changes, active_downloads, threadVars, dispVars, poolVars, taskVars,
                   stop_pc, on_complete_calls, runs>>

\* The background job of a page that holds no new key
PageJobNoNewKey ==
    /\ page_jobs > 0
    /\ page_jobs' = page_jobs - 1
    /\ UNCHANGED <<storeVars, clockVars, sessionVars, workerVars, flagVars, external_scraping_active, current_mode,
                   max_concurrent_downloads, max_retry_attempts, cap_lowered,
                   cap_changes, active_downloads, threadVars, dispVars, poolVars, taskVars,
                   stop_pc, on_complete_calls, runs>>

\* MainWindow::onScrapingComplete: set_external_scraping_active(false)
ExternalScrapingDone ==
    /\ external_scraping_active
    /\ stop_pc = "idle"
    /\ external_scraping_active' = FALSE
    /\ UNCHANGED <<storeVars, clockVars, sessionVars, workerVars, flagVars, cfgVars, active_downloads, threadVars,
                   dispVars, poolVars, taskVars, stop_pc, on_complete_calls, runs>>

stopUnchanged == <<storeVars, clockVars, sessionVars, workerVars, external_scraping_active, cfgVars, active_downloads,
                   dispVars, pool_workers, pool_tasks, taskVars, runs>>

\* A stop that does not test running_.
StopAlwaysProceeds == FALSE

\* stop, line 176: if (!running_) return
StopReturnsAtOnce == ~running

\* stop called on a manager that is not running
StopNotRunning ==
    /\ StopReturnsAtOnce
    /\ stop_pc = "idle"
    /\ UNCHANGED vars

\* stop, lines 176-180
StopBegin ==
    /\ ~StopReturnsAtOnce
    /\ stop_pc = "idle"
    /\ stop_requested' = TRUE
    /\ paused' = FALSE
    /\ NotifyAll
    /\ stop_pc' = "join_scraper"
    /\ UNCHANGED <<storeVars, clockVars, sessionVars, workerVars, external_scraping_active, cfgVars, active_downloads,
                   max_downloads, want, files, pool_workers, pool_tasks, taskVars, runs,
                   running, threadVars, pool_stop, on_complete_calls>>

\* stop, lines 183-185
StopJoinScraper ==
    /\ stop_pc = "join_scraper"
    /\ scraper_thread # "running"
    /\ scraper_thread' = "none"
    /\ stop_pc' = "join_brute_force"
    /\ UNCHANGED <<stopUnchanged, flagVars, brute_force_thread, download_joinable, pool_stop,
                   on_complete_calls>>

\* stop, lines 186-188
StopJoinBruteForce ==
    /\ stop_pc = "join_brute_force"
    /\ brute_force_thread # "running"
    /\ brute_force_thread' = "none"
    /\ stop_pc' = "join_download"
    /\ UNCHANGED <<stopUnchanged, flagVars, scraper_thread, download_joinable, pool_stop,
                   on_complete_calls>>

\* stop, lines 189-194
StopJoinDownload ==
    /\ stop_pc = "join_download"
    /\ download_joinable => dpc = "exited"
    /\ download_joinable' = FALSE
    /\ stop_pc' = "shutdown"
    /\ UNCHANGED <<stopUnchanged, flagVars, scraper_thread, brute_force_thread, pool_stop,
                   on_complete_calls>>

\* stop, lines 197-199 and ThreadPool::shutdown, lines 107-111
StopShutdownPool ==
    /\ stop_pc = "shutdown"
    /\ pool_stop' = TRUE
    /\ stop_pc' = "drain"
    /\ UNCHANGED <<stopUnchanged, flagVars, threadVars, on_complete_calls>>

\* ThreadPool::shutdown, lines 113-119 (the workers leave once the queue is
\* empty), then stop, lines 204-210
StopFinish ==
    /\ stop_pc = "drain"
    /\ pool_tasks = <<>> /\ BusyWorkers = 0
    /\ running' = FALSE
    /\ on_complete_calls' = on_complete_calls + 1
    /\ stop_pc' = "idle"
    /\ UNCHANGED <<stopUnchanged, paused, stop_requested, threadVars, pool_stop>>


(***************************************************************************)
(* Producer workers: scraper_worker (through scrape_page) and              *)
(* brute_force_worker commit new keys as PENDING and then return.          *)
(***************************************************************************)
ScraperAdd(i) ==
    /\ scraper_thread = "running"
    /\ AddFilesBatch(i)
    /\ UNCHANGED <<clockVars, sessionVars, workerVars, flagVars, external_scraping_active, cfgVars, active_downloads,
                   threadVars, dispVars, poolVars, taskVars, stop_pc, on_complete_calls, runs>>

ScraperFinish ==
    /\ scraper_thread = "running"
    /\ scraper_thread' = "finished"
    /\ UNCHANGED <<storeVars, clockVars, sessionVars, workerVars, flagVars, external_scraping_active, cfgVars,
                   active_downloads, brute_force_thread, download_joinable, dispVars,
                   poolVars, taskVars, stop_pc, on_complete_calls, runs>>

\* scrape_page, lines 671-682: all links of a page, the keys that have a row
\* included, go to add_files_batch
ScrapePage(records) ==
    /\ scraper_thread = "running"
    /\ records # <<>>
    /\ AddFilesBatchRecords(records)
    /\ UNCHANGED <<clockVars, sessionVars, workerVars, flagVars, external_scraping_active, cfgVars,
                   active_downloads, threadVars, dispVars, poolVars, taskVars, stop_pc,
                   on_complete_calls, runs>>

\* scraper_worker, line 384: the page the probe fetches
ProbeMid(low, high) == low + ((high - low) \div 2)

\* The probe's fetch of a page: HTTP 200 with the prefix or .pdf in the body
\* exactly for the site's pages 0..last_valid_page whose fetch does not fail.
PageValid(page) == page <= last_valid_page /\ page \notin failing_pages

\* A probe that keeps the first valid page it met
ProbeAfterKeepingFirst(s, valid) ==
    LET mid == ProbeMid(s.low, s.high)
    IN IF valid
       THEN [s EXCEPT !.detected_max_page = IF @ < 0 THEN mid ELSE @, !.low = mid + 1]
       ELSE [s EXCEPT !.high = mid - 1]

\* scraper_worker, lines 389-402: the locals after one probe fetch
ProbeAfter(s, valid) ==
    LET mid == ProbeMid(s.low, s.high)
    IN IF valid
       THEN [s EXCEPT !.detected_max_page = mid, !.low = mid + 1]
       ELSE [s EXCEPT !.high = mid - 1]

\* scraper_worker, lines 383-403: one turn of the probe loop
ProbeStep ==
    /\ scraper_thread = "running"
    /\ sw.pc = "probe"
    /\ sw.low <= sw.high
    /\ ~stop_requested
    /\ sw' = [ProbeAfter(sw, PageValid(ProbeMid(sw.low, sw.high))) EXCEPT !.pc = "probe"]
    /\ UNCHANGED <<storeVars, clockVars, sessionVars, pages, scraped_pages, total_pages,
                   probeEnvVars, otherWorkerVars, flagVars, external_scraping_active, cfgVars,
                   active_downloads, threadVars, dispVars, poolVars, taskVars, stop_pc,
                   on_complete_calls, runs>>

\* scraper_worker, lines 405-410: the last page index the worker goes on with
DetectedOrDefault(s) ==
    IF s.detected_max_page < 0 THEN max_page_index ELSE s.detected_max_page

\* Database::add_pages_batch: INSERT OR IGNORE of the pages first..last
AddPagesBatch(rows, first, last) == rows \cup (first..last)

\* scraper_worker, lines 405-418: the probe loop is left, the page rows are
\* added and the page count is published; log() writes nothing and no
\* callback is called.
ProbeEnd ==
    /\ scraper_thread = "running"
    /\ sw.pc = "probe"
    /\ ~(sw.low <= sw.high /\ ~stop_requested)
    /\ sw' = [sw EXCEPT !.pc = "scrape", !.detected_max_page = DetectedOrDefault(sw)]
    /\ pages' = AddPagesBatch(pages, 0, DetectedOrDefault(sw))
    /\ total_pages' = DetectedOrDefault(sw) + 1
    /\ UNCHANGED <<storeVars, clockVars, sessionVars, scraped_pages, probeEnvVars, otherWorkerVars,
                   flagVars, external_scraping_active, cfgVars, active_downloads,
                   threadVars, dispVars, poolVars, taskVars, stop_pc, on_complete_calls,
                   runs>>

\* Database::get_unscraped_pages: the first rows with scraped = 0, by page number
UnscrapedPages(limit) ==
    LET open == pages \ scraped_pages
    IN {p \in open : Cardinality({q \in open : q < p}) < limit}

\* scraper_worker, lines 421-453 with scrape_page: one turn of the scrape loop.
\* The pages of the batch whose fetch succeeded (ok) hand their links to
\* add_files_batch and are marked scraped; a page whose fetch failed is left.
ScrapeBatch(ok, records) ==
    /\ scraper_thread = "running"
    /\ sw.pc = "scrape"
    /\ ~stop_requested
    /\ ~paused
    /\ UnscrapedPages(MaxConcurrentScrapes) # {}
    /\ ok \subseteq UnscrapedPages(MaxConcurrentScrapes)
    /\ ok # {}
    /\ AddFilesBatchRecords(records)
    /\ scraped_pages' = scraped_pages \cup ok
    /\ UNCHANGED <<clockVars, sessionVars, sw, pages, total_pages, probeEnvVars, otherWorkerVars, flagVars,
                   external_scraping_active, cfgVars, active_downloads, threadVars,
                   dispVars, poolVars, taskVars, stop_pc, on_complete_calls, runs>>

\* scraper_worker, lines 421-435 and 455: the scrape loop is left on a stop
\* request or when no unscraped page is left, and the thread ends
ScrapeEnd ==
    /\ scraper_thread = "running"
    /\ sw.pc = "scrape"
    /\ stop_requested \/ (~paused /\ UnscrapedPages(MaxConcurrentScrapes) = {})
    /\ sw' = [sw EXCEPT !.pc = "done"]
    /\ scraper_thread' = "finished"
    /\ UNCHANGED <<storeVars, clockVars, sessionVars, pages, scraped_pages, total_pages,
                   probeEnvVars, otherWorkerVars, flagVars, external_scraping_active, cfgVars,
                   active_downloads, brute_force_thread, download_joinable, dispVars,
                   poolVars, taskVars, stop_pc, on_complete_calls, runs>>

\* An enumerator that resumes behind its checkpoint
StartIdBehindCheckpoint(progress) ==
    IF progress = 0 \/ progress < first_file_id THEN first_file_id ELSE progress + 1

\* brute_force_worker, lines 463-466: the id the enumeration starts from
StartId(progress) ==
    IF progress = 0 \/ progress < first_file_id THEN first_file_id ELSE progress

\* brute_force_worker, lines 463-479: the checkpoint is read
BruteForceBegin ==
    /\ brute_force_thread = "running"
    /\ bf.pc = "begin"
    /\ bf' = [bf EXCEPT !.pc = "loop", !.read = checkpoint, !.id = StartId(checkpoint),
                        !.current = StartId(checkpoint)]
    /\ UNCHANGED <<storeVars, clockVars, sessionVars, probeVars, extractVars, componentVars, fetchVars,
                   enumEnvVars, flagVars, external_scraping_active, cfgVars,
                   active_downloads, threadVars, dispVars, poolVars, taskVars, stop_pc,
                   on_complete_calls, runs>>

\* brute_force_worker, lines 481-517: one turn of the loop.  The id is looked
\* up and, without a row, put into the batch; a full batch is committed with
\* the checkpoint.
BruteForceStep ==
    /\ brute_force_thread = "running"
    /\ bf.pc = "loop"
    /\ bf.id <= last_file_id
    /\ ~stop_requested
    /\ ~paused
    /\ LET batch == IF bf.id \in bf_rows THEN bf.batch ELSE Append(bf.batch, bf.id)
           full == Len(batch) >= BatchSize
       IN /\ bf' = [bf EXCEPT !.checked = Append(@, bf.id), !.current = bf.id,
                              !.batch = IF full THEN <<>> ELSE batch, !.id = @ + 1]
          /\ bf_rows' = IF full THEN bf_rows \cup {batch[k] : k \in 1..Len(batch)} ELSE bf_rows
          /\ checkpoint' = IF full THEN bf.id ELSE checkpoint
    /\ UNCHANGED <<storeVars, clockVars, sessionVars, probeVars, extractVars, componentVars, fetchVars,
                   first_file_id, last_file_id, flagVars, external_scraping_active, cfgVars,
                   active_downloads, threadVars, dispVars, poolVars, taskVars, stop_pc,
                   on_complete_calls, runs>>

\* brute_force_worker, lines 481-526: the loop is left, at the end of the
\* range or on a stop request; a batch that is not empty is committed with the
\* checkpoint, and the thread ends
BruteForceEnd ==
    /\ brute_force_thread = "running"
    /\ bf.pc = "loop"
    /\ ~(bf.id <= last_file_id /\ ~stop_requested)
    /\ bf' = [bf EXCEPT !.pc = "done", !.batch = <<>>]
    /\ bf_rows' = bf_rows \cup {bf.batch[k] : k \in 1..Len(bf.batch)}
    /\ checkpoint' = IF bf.batch # <<>> THEN bf.current ELSE checkpoint
    /\ brute_force_thread' = "finished"
    /\ UNCHANGED <<storeVars, clockVars, sessionVars, probeVars, extractVars, componentVars, fetchVars,
                   first_file_id, last_file_id, flagVars, external_scraping_active, cfgVars,
                   active_downloads, scraper_thread, download_joinable, dispVars, poolVars,
                   taskVars, stop_pc, on_complete_calls, runs>>

\* brute_force_worker, lines 481-517: a turn of the loop that fills the batch
\* while add_files_batch fails (Database::add_files_batch, lines 148-178:
\* ROLLBACK and false); its result is not looked at and the checkpoint is
\* written
BruteForceStepBatchFails ==
    /\ brute_force_thread = "running"
    /\ bf.pc = "loop"
    /\ bf.id <= last_file_id
    /\ ~stop_requested
    /\ ~paused
    /\ bf.id \notin bf_rows
    /\ Len(bf.batch) + 1 >= BatchSize
    /\ bf' = [bf EXCEPT !.checked = Append(@, bf.id), !.current = bf.id,
                        !.batch = <<>>, !.id = @ + 1]
    /\ checkpoint' = bf.id
    /\ UNCHANGED <<storeVars, clockVars, sessionVars, probeVars, extractVars, componentVars, fetchVars,
                   first_file_id, last_file_id, bf_rows, flagVars, external_scraping_active,
                   cfgVars, active_downloads, threadVars, dispVars, poolVars, taskVars,
                   stop_pc, on_complete_calls, runs>>

\* brute_force_worker, lines 481-526: the loop is left with a batch that is
\* not empty, and add_files_batch fails
BruteForceEndBatchFails ==
    /\ brute_force_thread = "running"
    /\ bf.pc = "loop"
    /\ ~(bf.id <= last_file_id /\ ~stop_requested)
    /\ bf.batch # <<>>
    /\ bf' = [bf EXCEPT !.pc = "done", !.batch = <<>>]
    /\ checkpoint' = bf.current
    /\ brute_force_thread' = "finished"
    /\ UNCHANGED <<storeVars, clockVars, sessionVars, probeVars, extractVars, componentVars, fetchVars,
                   first_file_id, last_file_id, bf_rows, flagVars, external_scraping_active,
                   cfgVars, active_downloads, scraper_thread, download_joinable, dispVars,
                   poolVars, taskVars, stop_pc, on_complete_calls, runs>>

\* The site: the file a page links to
KeyOnPage(page) == (page % NumItems) + 1

\* scrape_page, lines 667-682: the records of the links of a page
RecordsOfPage(page) == <<[key |-> KeyOnPage(page), url |-> FirstUrl]>>

RECURSIVE RecordsOfPages(_)
RecordsOfPages(S) ==
    IF S = {} THEN <<>>
    ELSE LET p == CHOOSE q \in S : \A r \in S : q <= r
         IN RecordsOfPage(p) \o RecordsOfPages(S \ {p})

\* A take that passes over the pages taken before
UnscrapedPagesNotTakenBefore(limit) ==
    LET open == (pages \ scraped_pages) \ sw.taken
    IN {p \in open : Cardinality({q \in open : q < p}) < limit}

\* scraper_worker, line 431: the pages of a take
TakePages(limit) == UnscrapedPages(limit)

\* scraper_worker, lines 421-444: the top of a turn of the scrape loop, up to
\* the submission of a scrape_page task for every page taken
ScrapeTake ==
    /\ scraper_thread = "running"
    /\ sw.pc = "scrape"
    /\ ~stop_requested
    /\ ~paused
    /\ TakePages(MaxConcurrentScrapes) # {}
    /\ sw' = [sw EXCEPT !.pc = "scraping", !.taken = TakePages(MaxConcurrentScrapes)]
    /\ UNCHANGED <<storeVars, clockVars, sessionVars, pages, scraped_pages, total_pages,
                   probeEnvVars, otherWorkerVars, flagVars, external_scraping_active,
                   cfgVars, active_downloads, threadVars, dispVars, poolVars, taskVars,
                   stop_pc, on_complete_calls, runs>>

\* scrape_page for every page taken, and scraper_worker, lines 446-453: a page
\* whose fetch fails is left as it is (lines 661-664); the links of the other
\* pages go to add_files_batch and the pages are marked scraped (lines 682-683)
ScrapeJoin ==
    /\ scraper_thread = "running"
    /\ sw.pc = "scraping"
    /\ AddFilesBatchRecords(RecordsOfPages(sw.taken \ failing_pages))
    /\ scraped_pages' = scraped_pages \cup (sw.taken \ failing_pages)
    /\ sw' = [sw EXCEPT !.pc = "scrape"]
    /\ UNCHANGED <<clockVars, sessionVars, pages, total_pages, probeEnvVars,
                   otherWorkerVars, flagVars, external_scraping_active, cfgVars,
                   active_downloads, threadVars, dispVars, poolVars, taskVars, stop_pc,
                   on_complete_calls, runs>>

\* The site answers for a page again
SiteRecovers(page) ==
    /\ page \in failing_pages
    /\ failing_pages' = failing_pages \ {page}
    /\ UNCHANGED <<storeVars, clockVars, sessionVars, sw, pages, scraped_pages, total_pages,
                   last_valid_page, max_page_index, on_error_calls, otherWorkerVars,
                   flagVars, external_scraping_active, cfgVars, active_downloads,
                   threadVars, dispVars, poolVars, taskVars, stop_pc, on_complete_calls,
                   runs>>

BruteForceAdd(i) ==
    /\ brute_force_thread = "running"
    /\ AddFilesBatch(i)
    /\ UNCHANGED <<clockVars, sessionVars, workerVars, flagVars, external_scraping_active, cfgVars, active_downloads,
                   threadVars, dispVars, poolVars, taskVars, stop_pc, on_complete_calls, runs>>

BruteForceFinish ==
    /\ brute_force_thread = "running"
    /\ brute_force_thread' = "finished"
    /\ UNCHANGED <<storeVars, clockVars, sessionVars, workerVars, flagVars, external_scraping_active, cfgVars,
                   active_downloads, scraper_thread, download_joinable, dispVars,
                   poolVars, taskVars, stop_pc, on_complete_calls, runs>>

(***************************************************************************)
(* Dispatcher: DownloadManager::download_worker.                           *)
(***************************************************************************)
dispUnchanged == <<retry_count, clockVars, sessionVars, workerVars, paused, stop_requested, external_scraping_active,
                   cfgVars, threadVars, pool_workers, pool_stop, taskVars, stop_pc, runs>>

\* lines 531-540: loop condition, the pause wait's predicate, load of the cap
DispLoop ==
    /\ dpc = "loop"
    /\ \/ /\ stop_requested
          /\ dpc' = "finish"
          /\ UNCHANGED max_downloads
       \/ /\ ~stop_requested /\ ~paused
          /\ dpc' = "capacity"
          /\ max_downloads' = max_concurrent_downloads
       \/ /\ ~stop_requested /\ paused
          /\ dpc' = "pause_wait"
          /\ UNCHANGED max_downloads
    /\ UNCHANGED <<dispUnchanged, status, updated_at, file_size, url, running, active_downloads, want, files,
                   pool_tasks, on_complete_calls>>

\* line 535: the predicate was false; pause_cv_.wait releases pause_mutex_ and
\* blocks until a notification
DispPauseBlock ==
    /\ dpc = "pause_wait"
    /\ dpc' = "pause_blocked"
    /\ UNCHANGED <<dispUnchanged, status, updated_at, file_size, url, running, active_downloads,
                   max_downloads, want, files, pool_tasks, on_complete_calls>>

\* line 566: the retry list is cut when it has reached want
RetryTake(wantv, ready) == Min(wantv, ready)

\* lines 560-568: the failed rows whose back-off has elapsed
ReadyFailedRows ==
    {i \in FailedRows(max_retry_attempts) :
        now >= RecordUpdatedAt(i) + calculate_s_curve_backoff(retry_count[i])}

\* lines 551-569: the sets of rows the tick can take for a given want
TakeChoices(wantv) ==
    IF PendingRows # {}
    THEN {S \in SUBSET PendingRows :
              Cardinality(S) = PendingTake(wantv, Cardinality(PendingRows))}
    ELSE {S \in SUBSET ReadyFailedRows :
              Cardinality(S) = RetryTake(wantv, Cardinality(ReadyFailedRows))}

\* lines 543-571: capacity wait, then the take. (A local that is not read again
\* before it is reassigned is reset to 0: max_downloads after the take, want
\* when the tick took nothing.)
DispCapacity ==
    /\ dpc = "capacity"
    /\ \/ /\ active_downloads >= max_downloads /\ ~stop_requested
          /\ max_downloads' = max_concurrent_downloads
          /\ UNCHANGED <<dpc, want, files>>
       \/ /\ stop_requested
          /\ dpc' = "finish"
          /\ max_downloads' = 0
          /\ UNCHANGED <<want, files>>
       \/ /\ active_downloads < max_downloads /\ ~stop_requested
          /\ \E S \in TakeChoices(max_downloads - active_downloads) :
                /\ files' = AscendingSeq(S)
                /\ want' = IF S = {} THEN 0 ELSE max_downloads - active_downloads
                /\ dpc' = IF S = {} THEN "check_active" ELSE "submit"
          /\ max_downloads' = 0
    /\ UNCHANGED <<dispUnchanged, status, updated_at, file_size, url, running, active_downloads, pool_tasks,
                   on_complete_calls>>

\* lines 573-579
DispCheckActive ==
    /\ dpc = "check_active"
    /\ dpc' = IF active_downloads > 0 THEN "loop" ELSE "check_external"
    /\ UNCHANGED <<dispUnchanged, status, updated_at, file_size, url, running, active_downloads,
                   max_downloads, want, files, pool_tasks, on_complete_calls>>

\* lines 582-585
DispCheckExternal ==
    /\ dpc = "check_external"
    /\ dpc' = IF external_scraping_active THEN "loop" ELSE "check_workers"
    /\ UNCHANGED <<dispUnchanged, status, updated_at, file_size, url, running, active_downloads,
                   max_downloads, want, files, pool_tasks, on_complete_calls>>

\* lines 588-591: std::thread::joinable() stays true after the thread function
\* has returned, until the thread is joined
scraper_done == scraper_thread = "none" \/ current_mode = "BRUTE_FORCE"
bf_done == brute_force_thread = "none" \/ current_mode = "SCRAPER"

\* lines 593-597
DispCheckWorkers ==
    /\ dpc = "check_workers"
    /\ dpc' = IF ~scraper_done \/ ~bf_done THEN "loop" ELSE "check_db"
    /\ UNCHANGED <<dispUnchanged, status, updated_at, file_size, url, running, active_downloads,
                   max_downloads, want, files, pool_tasks, on_complete_calls>>

\* lines 600-608: the exit check's re-query of the store
ExitRecheckFindsWork == StatsPendingOrInProgress

\* lines 600-611
DispCheckDb ==
    /\ dpc = "check_db"
    /\ dpc' = IF ExitRecheckFindsWork THEN "loop" ELSE "finish"
    /\ UNCHANGED <<dispUnchanged, status, updated_at, file_size, url, running, active_downloads,
                   max_downloads, want, files, pool_tasks, on_complete_calls>>

\* ThreadPool::submit_detached: a stopped pool drops the task
SubmitDetached(i) ==
    pool_tasks' = IF pool_stop THEN pool_tasks ELSE Append(pool_tasks, i)

\* lines 615-626: one iteration of the submit loop (want is reset to 0 when the
\* loop is left)
DispSubmit ==
    /\ dpc = "submit"
    /\ files # <<>>
    /\ \/ /\ stop_requested
          /\ files' = <<>>
          /\ want' = 0
          /\ dpc' = "loop"
          /\ UNCHANGED <<status, updated_at, file_size, active_downloads, pool_tasks>>
       \/ /\ ~stop_requested
          /\ UpdateFileStatus(Head(files), "IN_PROGRESS", 0)
          /\ active_downloads' = active_downloads + 1
          /\ SubmitDetached(Head(files))
          /\ files' = Tail(files)
          /\ want' = IF Tail(files) = <<>> THEN 0 ELSE want
          /\ dpc' = IF Tail(files) = <<>> THEN "loop" ELSE "submit"
    /\ UNCHANGED <<dispUnchanged, url, running, max_downloads, on_complete_calls>>

\* Database::update_file_status returning false (sqlite3_prepare_v2 or
\* sqlite3_step did not succeed, lines 195-198 and 206-209): no row changes
UpdateFileStatusFails == UNCHANGED <<status, file_size, updated_at, url>>

\* lines 615-626: an iteration of the submit loop in which update_file_status
\* fails; its result is not looked at
DispSubmitUpdateFails ==
    /\ dpc = "submit"
    /\ files # <<>>
    /\ ~stop_requested
    /\ UpdateFileStatusFails
    /\ active_downloads' = active_downloads + 1
    /\ SubmitDetached(Head(files))
    /\ files' = Tail(files)
    /\ want' = IF Tail(files) = <<>> THEN 0 ELSE want
    /\ dpc' = IF Tail(files) = <<>> THEN "loop" ELSE "submit"
    /\ UNCHANGED <<dispUnchanged, running, max_downloads, on_complete_calls>>

\* line 616, as a step of its own: the test of stop_requested_ that opens an
\* iteration of the submit loop
DispSubmitCheck ==
    /\ dpc = "submit"
    /\ files # <<>>
    /\ IF stop_requested
       THEN files' = <<>> /\ want' = 0 /\ dpc' = "loop"
       ELSE dpc' = "submit_admit" /\ UNCHANGED <<files, want>>
    /\ UNCHANGED <<dispUnchanged, status, updated_at, file_size, url, running,
                   active_downloads, max_downloads, pool_tasks, on_complete_calls>>

\* lines 618-625, as a step of its own: the rest of the iteration
DispSubmitAdmit ==
    /\ dpc = "submit_admit"
    /\ UpdateFileStatus(Head(files), "IN_PROGRESS", 0)
    /\ active_downloads' = active_downloads + 1
    /\ SubmitDetached(Head(files))
    /\ files' = Tail(files)
    /\ want' = IF Tail(files) = <<>> THEN 0 ELSE want
    /\ dpc' = IF Tail(files) = <<>> THEN "loop" ELSE "submit"
    /\ UNCHANGED <<dispUnchanged, url, running, max_downloads, on_complete_calls>>

\* lines 629-633
DispFinish ==
    /\ dpc = "finish"
    /\ IF ~stop_requested
       THEN running' = FALSE /\ dpc' = "emit"
       ELSE dpc' = "exited" /\ UNCHANGED running
    /\ UNCHANGED <<dispUnchanged, status, updated_at, file_size, url, active_downloads, max_downloads, want,
                   files, pool_tasks, on_complete_calls>>

\* line 632, as a step of its own: the test of stop_requested_
DispFinishCheck ==
    /\ dpc = "finish"
    /\ dpc' = IF ~stop_requested THEN "finish_mark" ELSE "exited"
    /\ UNCHANGED <<dispUnchanged, status, updated_at, file_size, url, running, active_downloads,
                   max_downloads, want, files, pool_tasks, on_complete_calls>>

\* line 633, as a step of its own: running_ = false
DispFinishMark ==
    /\ dpc = "finish_mark"
    /\ running' = FALSE
    /\ dpc' = "emit"
    /\ UNCHANGED <<dispUnchanged, status, updated_at, file_size, url, active_downloads,
                   max_downloads, want, files, pool_tasks, on_complete_calls>>

\* lines 634-637
DispEmit ==
    /\ dpc = "emit"
    /\ on_complete_calls' = on_complete_calls + 1
    /\ dpc' = "exited"
    /\ UNCHANGED <<dispUnchanged, status, updated_at, file_size, url, running, active_downloads,
                   max_downloads, want, files, pool_tasks>>

(***************************************************************************)
(* Download tasks: ThreadPool::worker_thread running the lambda of lines   *)
(* 622-625, which calls download_file and then decrements active_downloads.*)
(***************************************************************************)
\* worker_thread, lines 44-57: a free worker takes the front task
TaskStart ==
    /\ pool_tasks # <<>>
    /\ BusyWorkers < pool_workers
    /\ task_running' = [task_running EXCEPT ![Head(pool_tasks)] = @ + 1]
    /\ pool_tasks' = Tail(pool_tasks)
    /\ UNCHANGED <<storeVars, clockVars, sessionVars, workerVars, flagVars, external_scraping_active, cfgVars,
                   active_downloads, threadVars, dispVars, pool_workers, pool_stop,
                   task_releasing, stop_pc, on_complete_calls, runs>>

\* A download_file that puts a failed row back to PENDING.
OutcomeStatusRequeueing(o) ==
    CASE o = "skipped" -> "SKIPPED"
      [] o \in {"http404", "empty"} -> "NOT_FOUND"
      [] o = "completed" -> "COMPLETED"
      [] o \in {"blocked", "failed", "exception"} -> "PENDING"

\* download_file: the status an outcome writes
OutcomeStatus(o) ==
    CASE o = "skipped" -> "SKIPPED"
      [] o = "http404" -> "NOT_FOUND"
      [] o = "blocked" -> "FAILED"
      [] o = "completed" -> "COMPLETED"
      [] o = "empty" -> "NOT_FOUND"
      [] o = "failed" -> "FAILED"
      [] o = "exception" -> "FAILED"

\* download_file: the outcomes that call increment_retry_count (lines 750, 779)
OutcomeIncrementsRetry(o) == o \in {"blocked", "failed"}

\* download_file, line 702: the task can find a file with content that is not
\* to be overwritten (at an unknown path it can find anything)
CanSkipExisting(i) == ~overwrite_existing /\ local_file[i] \in {"unknown", "content"}

\* download_file, line 702: the task can find no such file
CanPassExisting(i) == overwrite_existing \/ local_file[i] # "content"

\* A download_file whose empty-response branch leaves the file in place.
LocalFileAfterKeepingEmpty(o) ==
    CASE o \in {"skipped", "completed"} -> "content"
      [] o = "empty" -> "empty"
      [] o \in {"http404", "blocked", "failed"} -> "absent"
      [] o = "exception" -> "unknown"

\* download_file: what is at local_path when the task ends. A skipped file is
\* the file with content that was found; download_to_file creates the file and
\* every branch but the successful one removes it (lines 741-743, 747-749,
\* 770-772, 776-778); an exception leaves the path in any state.
LocalFileAfter(o) ==
    CASE o \in {"skipped", "completed"} -> "content"
      [] o \in {"http404", "blocked", "empty", "failed"} -> "absent"
      [] o = "exception" -> "unknown"

\* A download_file that counts the body of every response.
BytesCountedAlways(o, len) == len

\* download_file, lines 758-760: bytes_this_session_ += result.content_length,
\* in the branch of a successful, non-empty response only
BytesCounted(o, len) == IF o = "completed" THEN len ELSE 0

\* the file_size argument of update_file_status (line 762; 0 by default)
RecordedSize(o, len) == IF o = "completed" THEN len ELSE 0

\* The transfers a task can meet: whether curl_easy_perform returned
\* CURLE_OK, the response code, the bytes written to the file and the
\* Content-Length header (0 when the server sent none).
HttpCodes == {0, 200, 403, 404, 429, 500}
Transfers ==
    [curl_ok : BOOLEAN, http_code : HttpCodes, downloaded : 0..MaxBodyLength,
     expected : 0..MaxBodyLength]

\* Downloader::download_to_file, lines 371-396: success is a 2xx response
\* whose body has the announced length
download_to_file(t) ==
    [success |-> /\ t.curl_ok
                 /\ t.http_code >= 200 /\ t.http_code < 300
                 /\ ~(t.expected > 0 /\ t.downloaded # t.expected),
     http_code |-> t.http_code,
     content_length |-> t.downloaded]

\* A download_file that tests for a successful response before the 404
DispositionSuccessFirst(found, r) ==
    IF ~overwrite_existing /\ found THEN "skipped"
    ELSE IF r.content_length > 0 THEN "completed"
    ELSE IF r.http_code = 404 THEN "http404"
    ELSE IF r.http_code = 403 \/ r.http_code = 429 THEN "blocked"
    ELSE IF r.success /\ r.content_length = 0 THEN "empty"
    ELSE "failed"

\* download_file, lines 702-786: the branch taken, in the order of the tests
Disposition(found, r) ==
    IF ~overwrite_existing /\ found THEN "skipped"
    ELSE IF r.http_code = 404 THEN "http404"
    ELSE IF r.http_code = 403 \/ r.http_code = 429 THEN "blocked"
    ELSE IF r.success /\ r.content_length > 0 THEN "completed"
    ELSE IF r.success /\ r.content_length = 0 THEN "empty"
    ELSE "failed"

\* download_file, lines 699-802, without what the task remembers of the
\* transfer; len is the size of the response body
DownloadFileEnds(i, o, len) ==
    /\ task_running[i] > 0
    /\ o = "skipped" => CanSkipExisting(i)
    /\ o \notin {"skipped", "exception"} => CanPassExisting(i)
    /\ local_file' = [local_file EXCEPT ![i] = LocalFileAfter(o)]
    /\ bytes_this_session' = bytes_this_session + BytesCounted(o, len)
    /\ UpdateFileStatus(i, OutcomeStatus(o), RecordedSize(o, len))
    /\ retry_count' = [retry_count EXCEPT ![i] = IF OutcomeIncrementsRetry(o) THEN @ + 1 ELSE @]
    /\ task_running' = [task_running EXCEPT ![i] = @ - 1]
    /\ task_releasing' = [task_releasing EXCEPT ![i] = @ + 1]
    /\ UNCHANGED <<clockVars, overwrite_existing, probeVars, extractVars, componentVars, enumVars, flagVars,
                   external_scraping_active, cfgVars, active_downloads,
                   threadVars, dispVars, poolVars, stop_pc, on_complete_calls, runs>>

\* download_file taking the branch o, the transfer behind it left open
DownloadFile(i, o, len) ==
    /\ DownloadFileEnds(i, o, len)
    /\ UNCHANGED fetched

\* download_file, lines 699-786: the task looks for a file with content,
\* and fetches when it is to; no exception is thrown
DownloadFileOf(i, found, t) ==
    LET r == download_to_file(t)
        o == Disposition(found, r)
    IN /\ DownloadFileEnds(i, o, r.content_length)
       /\ fetched' = [fetched EXCEPT ![i] =
              IF o = "skipped" THEN [NoFetch EXCEPT !.found = TRUE]
              ELSE [found |-> found, fetch |-> TRUE, success |-> r.success,
                    http_code |-> r.http_code, content_length |-> r.content_length]]

\* line 624: active_downloads_--
TaskRelease(i) ==
    /\ task_releasing[i] > 0
    /\ task_releasing' = [task_releasing EXCEPT ![i] = @ - 1]
    /\ active_downloads' = active_downloads - 1
    /\ UNCHANGED <<storeVars, clockVars, sessionVars, workerVars, flagVars, external_scraping_active, cfgVars,
                   threadVars, dispVars, poolVars, task_running, stop_pc, on_complete_calls,
                   runs>>

\* The timing block of download_file, lines 711-737, in its two halves, and
\* the steady clock between them.  wire.active are the tasks between the two
\* halves, wire.busy_ms the milliseconds that passed with at least one such
\* task.

\* lines 711-719: under transfer_time_mutex_, the first task to arrive since
\* start() takes first_active_time_ and sets any_download_active_
WireDownloadBegin(i) ==
    /\ i \notin wire.active
    /\ wire' = [wire EXCEPT
           !.active = @ \cup {i},
           !.first_active_time = IF ~wire.any_download_active THEN wire.clock ELSE @,
           !.any_download_active = TRUE]
    /\ UNCHANGED <<managerVars, scraper_pool, tp>>

\* lines 729-737: under transfer_time_mutex_, last_active_time_ and the span
\* from first_active_time_
WireDownloadEnd(i) ==
    /\ i \in wire.active
    /\ wire' = [wire EXCEPT
           !.active = @ \ {i},
           !.last_active_time = wire.clock,
           !.active_transfer_wall_ms = wire.clock - wire.first_active_time]
    /\ UNCHANGED <<managerVars, scraper_pool, tp>>

\* A millisecond of steady_clock passes
WireClockTick ==
    /\ wire.clock < MaxWireClock
    /\ wire' = [wire EXCEPT
           !.clock = @ + 1,
           !.busy_ms = IF wire.active # {} THEN @ + 1 ELSE @]
    /\ UNCHANGED <<managerVars, scraper_pool, tp>>

(***************************************************************************)
(* ThreadPool (thread_pool.h, thread_pool.cpp): its worker threads and one *)
(* thread that calls it.  tp.kind and tp.outcome tell of each task how it  *)
(* was handed over and what became of it ("accepted", then "executed"; or  *)
(* "refused": submit threw; or "dropped"), tp.caught the tasks whose       *)
(* exception reached worker_thread's handler, tp.at_shutdown the tasks     *)
(* accepted and not yet executed when shutdown() was called, and           *)
(* tp.before_wait_all the tasks accepted before the last wait_all().       *)
(***************************************************************************)
PoolWorkers == DOMAIN tp.workers

\* queue_mutex_ is held by the caller between wait_all's look at its
\* predicate and its going to sleep
QueueMutexFree == tp.caller # "wait_all_checked"

\* completion_condition_.notify_all(): a caller asleep in wait_all looks again
NotifyCompletion(caller) == IF caller = "wait_all_sleep" THEN "wait_all_check" ELSE caller

\* submit (thread_pool.h) and submit_detached (lines 81-92): a stopped pool
\* makes submit throw and submit_detached return; otherwise the task is queued
PoolSubmit(t, kind) ==
    /\ tp.caller = "idle"
    /\ tp.outcome[t] = "none"
    /\ tp' = IF tp.stop
             THEN [tp EXCEPT !.kind[t] = kind,
                             !.outcome[t] = IF kind = "submit" THEN "refused" ELSE "dropped"]
             ELSE [tp EXCEPT !.kind[t] = kind,
                             !.outcome[t] = "accepted",
                             !.tasks = Append(@, t),
                             !.total_tasks = @ + 1]
    /\ UNCHANGED <<managerVars, scraper_pool, wire>>

\* worker_thread, lines 44-49: a worker may return when the pool is stopped
\* and nothing is queued
WorkerMayReturnOnStop == tp.stop
WorkerMayReturn == tp.stop /\ tp.tasks = <<>>

\* worker_thread, lines 43-53, under queue_mutex_: the worker takes the task
\* at the front of the queue
PoolWorkerDequeue(w) ==
    /\ QueueMutexFree
    /\ tp.workers[w].pc = "wait"
    /\ tp.tasks # <<>>
    /\ tp' = [tp EXCEPT !.workers[w] = [pc |-> "dequeued", task |-> Head(tp.tasks)],
                        !.tasks = Tail(@)]
    /\ UNCHANGED <<managerVars, scraper_pool, wire>>

\* worker_thread, lines 48-50: the worker returns
PoolWorkerReturn(w) ==
    /\ QueueMutexFree
    /\ tp.workers[w].pc = "wait"
    /\ WorkerMayReturn
    /\ tp' = [tp EXCEPT !.workers[w].pc = "exited"]
    /\ UNCHANGED <<managerVars, scraper_pool, wire>>

\* worker_thread, line 56, outside the lock: active_tasks_++, and the task
\* begins
PoolWorkerBegin(w) ==
    /\ tp.workers[w].pc = "dequeued"
    /\ tp' = [tp EXCEPT !.workers[w].pc = "running", !.active_tasks = @ + 1]
    /\ UNCHANGED <<managerVars, scraper_pool, wire>>

\* worker_thread, lines 57-78: the task ends, by returning or by throwing
\* (the task of submit is a packaged_task, which keeps what its function
\* throws); the handler of lines 59-72 takes the exception, the counters
\* move, completion_condition_ is notified, and the worker waits again
PoolWorkerEnd(w, throws) ==
    /\ tp.workers[w].pc = "running"
    /\ throws => tp.kind[tp.workers[w].task] = "detached"
    /\ tp' = [tp EXCEPT !.workers[w] = [pc |-> "wait", task |-> 0],
                        !.active_tasks = @ - 1,
                        !.completed_tasks = @ + 1,
                        !.outcome[tp.workers[w].task] = "executed",
                        !.caught = IF throws THEN @ \cup {tp.workers[w].task} ELSE @,
                        !.caller = NotifyCompletion(@)]
    /\ UNCHANGED <<managerVars, scraper_pool, wire>>

\* wait_all, lines 99-104
WaitAllPredicate == tp.tasks = <<>> /\ tp.active_tasks = 0

\* A call of wait_all
PoolWaitAll ==
    /\ tp.caller = "idle"
    /\ tp' = [tp EXCEPT !.caller = "wait_all_check",
                        !.wait_all_returned = FALSE,
                        !.before_wait_all = {t \in PoolTaskIds :
                                                tp.outcome[t] \in {"accepted", "executed"}}]
    /\ UNCHANGED <<managerVars, scraper_pool, wire>>

\* completion_condition_.wait(lock, predicate): with queue_mutex_ the caller
\* looks at the predicate, and returns or is about to sleep
PoolWaitAllCheck ==
    /\ tp.caller = "wait_all_check"
    /\ tp' = IF WaitAllPredicate
             THEN [tp EXCEPT !.caller = "idle", !.wait_all_returned = TRUE]
             ELSE [tp EXCEPT !.caller = "wait_all_checked"]
    /\ UNCHANGED <<managerVars, scraper_pool, wire>>

\* the caller releases queue_mutex_ and sleeps on completion_condition_
PoolWaitAllSleep ==
    /\ tp.caller = "wait_all_checked"
    /\ tp' = [tp EXCEPT !.caller = "wait_all_sleep"]
    /\ UNCHANGED <<managerVars, scraper_pool, wire>>

\* a condition variable may wake without a notification
PoolWaitAllSpuriousWake ==
    /\ tp.caller = "wait_all_sleep"
    /\ tp' = [tp EXCEPT !.caller = "wait_all_check"]
    /\ UNCHANGED <<managerVars, scraper_pool, wire>>

\* shutdown, lines 106-113, on a pool that is not stopped (on a stopped pool
\* it returns at line 109 and changes nothing): stop_ is set under
\* queue_mutex_ and the workers are notified
PoolShutdown ==
    /\ tp.caller = "idle"
    /\ ~tp.stop
    /\ tp' = [tp EXCEPT !.stop = TRUE,
                        !.caller = "shutdown_join",
                        !.at_shutdown = {t \in PoolTaskIds : tp.outcome[t] = "accepted"}]
    /\ UNCHANGED <<managerVars, scraper_pool, wire>>

\* shutdown, lines 115-119: every worker has been joined
PoolShutdownReturn ==
    /\ tp.caller = "shutdown_join"
    /\ \A w \in PoolWorkers : tp.workers[w].pc = "exited"
    /\ tp' = [tp EXCEPT !.caller = "idle", !.shutdown_returned = TRUE]
    /\ UNCHANGED <<managerVars, scraper_pool, wire>>

(***************************************************************************)
(* ScraperPool (gui/scraper_pool.h, scraper_pool.cpp): a pool of browser   *)
(* views that load the pages of a listing; its handlers run one at a time  *)
(* on the GUI thread.  scraper_pool.listed is the list handed to           *)
(* startScrapingPages, scraper_pool.allPagesComplete counts the signals.   *)
(* dispatch_scheduled stands for the single-shot timers that call          *)
(* dispatchNext: one call does what any number of them do.                 *)
(***************************************************************************)
PoolPages == 0..(MaxExpected - 1)

\* The orders in which a QSet<int> of pages may be iterated
PageOrders == {o \in [1..MaxExpected -> PoolPages] : \A a, b \in 1..MaxExpected : o[a] = o[b] => a = b}

\* *set.begin() of a QSet iterated in the given order
FirstIn(set, order) ==
    order[CHOOSE a \in 1..MaxExpected :
              order[a] \in set /\ \A b \in 1..(a - 1) : order[b] \notin set]

\* getNextPage, lines 210-237: the page and the pool it leaves
RECURSIVE getNextPage(_, _)
getNextPage(pool, order) ==
    IF pool.pendingPages # <<>>
    THEN LET page == Head(pool.pendingPages)
             rest == [pool EXCEPT !.pendingPages = Tail(@)]
         IN IF page \notin pool.scrapedPages /\ page \notin pool.inProgressPages
            THEN [page |-> page, pool |-> rest]
            ELSE getNextPage(rest, order)
    ELSE LET free == {page \in pool.nextPageToAssign..pool.maxPage :
                         page \notin pool.scrapedPages /\ page \notin pool.inProgressPages}
         IN IF free # {}
            THEN LET page == CHOOSE q \in free : \A r \in free : q <= r
                 IN [page |-> page, pool |-> [pool EXCEPT !.nextPageToAssign = page + 1]]
            ELSE LET ranged == [pool EXCEPT !.nextPageToAssign =
                                    IF @ <= pool.maxPage THEN pool.maxPage + 1 ELSE @]
                 IN IF pool.failedPages # {}
                    THEN LET page == FirstIn(pool.failedPages, order)
                         IN [page |-> page,
                             pool |-> [ranged EXCEPT !.failedPages = @ \ {page}]]
                    ELSE [page |-> -1, pool |-> ranged]

\* dispatchNext, lines 246-268: the views from v on
RECURSIVE DispatchViews(_, _, _)
DispatchViews(pool, v, order) ==
    IF v > Len(pool.views) THEN pool
    ELSE IF pool.views[v].busy THEN DispatchViews(pool, v + 1, order)
    ELSE LET next == getNextPage(pool, order)
         IN IF next.page < 0
            THEN DispatchViews(next.pool, v + 1, order)
            ELSE DispatchViews(
                     [next.pool EXCEPT !.views[v] = [busy |-> TRUE, currentPage |-> next.page],
                                       !.inProgressPages = @ \cup {next.page}],
                     v + 1, order)

\* dispatchNext, lines 239-270 (paused_ is false: pause() is never called)
dispatchNext(pool, order) == IF ~pool.active THEN pool ELSE DispatchViews(pool, 1, order)

\* The list of a set of pages in ascending order
RECURSIVE AscendingPages(_)
AscendingPages(set) ==
    IF set = {} THEN <<>>
    ELSE LET page == CHOOSE q \in set : \A r \in set : q <= r
         IN <<page>> \o AscendingPages(set \ {page})

\* startScrapingPages, lines 145-168, on a pool that has not been started:
\* stop(), the list, and a first dispatchNext
StartScrapingPages(list, totalExpected, order) ==
    /\ ~scraper_pool.active
    /\ scraper_pool.listed = {}
    /\ scraper_pool' = dispatchNext(
           [scraper_pool EXCEPT
               !.maxPage = totalExpected - 1,
               !.pendingPages = AscendingPages(list),
               !.nextPageToAssign = 0,
               !.scrapedPages = {},
               !.inProgressPages = {},
               !.failedPages = {},
               !.views = [v \in DOMAIN @ |-> [busy |-> FALSE, currentPage |-> -1]],
               !.active = TRUE,
               !.listed = list], order)
    /\ UNCHANGED <<managerVars, tp, wire>>

\* The test of onLoadFinished, lines 327-336
AllDone(pool) ==
    /\ Cardinality(pool.scrapedPages) = pool.maxPage + 1
    /\ pool.inProgressPages = {}
    /\ pool.pendingPages = <<>>

\* onLoadFinished, lines 272-347, with the callback of toHtml: a failed load
\* puts the page with the failed ones and schedules dispatchNext; a loaded
\* page is scraped, and the pool emits allPagesComplete or schedules
\* dispatchNext
OnLoadFinished(v, ok) ==
    LET view == scraper_pool.views[v]
        idle == [scraper_pool EXCEPT !.views[v].busy = FALSE,
                                     !.inProgressPages = @ \ {view.currentPage}]
        scraped == [idle EXCEPT !.scrapedPages = @ \cup {view.currentPage}]
    IN /\ view.busy
       /\ view.currentPage >= 0
       /\ scraper_pool' =
              IF ~ok
              THEN [idle EXCEPT !.failedPages = @ \cup {view.currentPage},
                                !.dispatch_scheduled = TRUE]
              ELSE IF AllDone(scraped)
              THEN [scraped EXCEPT !.active = FALSE, !.allPagesComplete = @ + 1]
              ELSE [scraped EXCEPT !.dispatch_scheduled = TRUE]
       /\ UNCHANGED <<managerVars, tp, wire>>

\* A single-shot timer of onLoadFinished calls dispatchNext
TimerDispatchNext(order) ==
    /\ scraper_pool.dispatch_scheduled
    /\ scraper_pool' = [dispatchNext(scraper_pool, order) EXCEPT !.dispatch_scheduled = FALSE]
    /\ UNCHANGED <<managerVars, tp, wire>>

(***************************************************************************)
(* Spec: one run of a manager, of any kind, under every interleaving of    *)
(* the controller, the producers, the dispatcher and the download tasks.   *)
(* The clock stands still in Spec; SpecTimed below lets it advance.        *)
(***************************************************************************)
Next ==
    \/ \E m \in Modes : Start(m)
    \/ \E e \in BOOLEAN : StartDownloadOnly(e)
    \/ Pause
    \/ Resume
    \/ \E n \in Caps : SetMaxConcurrentDownloads(n)
    \/ ExternalScrapingDone
    \/ PageReady
    \/ \E i \in Items : PageJobAdd(i)
    \/ PageJobNoNewKey
    \/ StopBegin
    \/ StopNotRunning
    \/ StopJoinScraper
    \/ StopJoinBruteForce
    \/ StopJoinDownload
    \/ StopShutdownPool
    \/ StopFinish
    \/ \E i \in Items : ScraperAdd(i)
    \/ ScraperFinish
    \/ \E i \in Items : BruteForceAdd(i)
    \/ BruteForceFinish
    \/ DispLoop
    \/ DispPauseBlock
    \/ DispCapacity
    \/ DispCheckActive
    \/ DispCheckExternal
    \/ DispCheckWorkers
    \/ DispCheckDb
    \/ DispSubmit
    \/ DispFinish
    \/ DispEmit
    \/ TaskStart
    \/ \E i \in Items, o \in Outcomes : DownloadFile(i, o, MaxBodyLength)
    \/ \E i \in Items : TaskRelease(i)

Spec == Init /\ [][Next]_vars

(***************************************************************************)
(* SpecTimed: a download-only run over the rows already in the store, with *)
(* the clock advancing (std::chrono::system_clock::now(), line 557).       *)
(***************************************************************************)
Tick ==
    /\ ticks < MaxTicks
    /\ ticks' = ticks + 1
    /\ now' = now + TickSeconds
    /\ UNCHANGED <<storeVars, sessionVars, workerVars, flagVars, external_scraping_active,
                   cfgVars, active_downloads, threadVars, dispVars, poolVars, taskVars,
                   stop_pc, on_complete_calls, runs>>

NextTimed ==
    \/ StartDownloadOnly(FALSE)
    \/ StopBegin
    \/ StopNotRunning
    \/ StopJoinScraper
    \/ StopJoinBruteForce
    \/ StopJoinDownload
    \/ StopShutdownPool
    \/ StopFinish
    \/ DispLoop
    \/ DispCapacity
    \/ DispCheckActive
    \/ DispCheckExternal
    \/ DispCheckWorkers
    \/ DispCheckDb
    \/ DispSubmit
    \/ DispFinish
    \/ DispEmit
    \/ TaskStart
    \/ \E i \in Items, o \in Outcomes : DownloadFile(i, o, MaxBodyLength)
    \/ \E i \in Items : TaskRelease(i)
    \/ Tick

SpecTimed == Init /\ [][NextTimed]_vars

(***************************************************************************)
(* SpecRestart: a run (scraper mode or download-only), its end, and a new  *)
(* start on the same store; response bodies of every size in BodyLengths.  *)
(***************************************************************************)
NextRestart ==
    \/ Start("SCRAPER")
    \/ StartDownloadOnly(FALSE)
    \/ StartAgain("SCRAPER")
    \/ StartDownloadOnlyAgain
    \/ Pause
    \/ Resume
    \/ StopBegin
    \/ StopNotRunning
    \/ StopJoinScraper
    \/ StopJoinBruteForce
    \/ StopJoinDownload
    \/ StopShutdownPool
    \/ StopFinish
    \/ \E i \in Items : ScraperAdd(i)
    \/ ScraperFinish
    \/ DispLoop
    \/ DispPauseBlock
    \/ DispCapacity
    \/ DispCheckActive
    \/ DispCheckExternal
    \/ DispCheckWorkers
    \/ DispCheckDb
    \/ DispSubmit
    \/ DispFinish
    \/ DispEmit
    \/ TaskStart
    \/ \E i \in Items, o \in Outcomes, len \in BodyLengths : DownloadFile(i, o, len)
    \/ \E i \in Items : TaskRelease(i)

SpecRestart == Init /\ [][NextRestart]_vars

(***************************************************************************)
(* SpecStore: a scraper-mode run whose scraper commits whole pages of      *)
(* links, keys that already have a row included, with either setting of    *)
(* overwrite_existing.                                                     *)
(***************************************************************************)
NextStore ==
    \/ Start("SCRAPER")
    \/ \E b \in BOOLEAN : SetOverwriteExisting(b)
    \/ \E records \in Batches : ScrapePage(records)
    \/ ScraperFinish
    \/ DispLoop
    \/ DispCapacity
    \/ DispCheckActive
    \/ DispCheckExternal
    \/ DispCheckWorkers
    \/ DispSubmit
    \/ TaskStart
    \/ \E i \in Items, o \in Outcomes : DownloadFile(i, o, MaxBodyLength)
    \/ \E i \in Items : TaskRelease(i)

SpecStore == Init /\ [][NextStore]_vars

(***************************************************************************)
(* SpecBackoff: a download-only run over Failed rows of every retry count  *)
(* up to MaxBackoffRetry; the dispatcher computes each row's back-off      *)
(* (line 561) before it retries it.                                        *)
(***************************************************************************)
NextBackoff ==
    \/ StartDownloadOnly(FALSE)
    \/ DispLoop
    \/ DispCapacity
    \/ DispCheckActive
    \/ DispCheckExternal
    \/ DispCheckWorkers
    \/ DispCheckDb
    \/ DispSubmit
    \/ DispFinish
    \/ DispEmit
    \/ TaskStart
    \/ \E i \in Items, o \in Outcomes : DownloadFile(i, o, MaxBodyLength)
    \/ \E i \in Items : TaskRelease(i)

SpecBackoff == InitBackoff /\ [][NextBackoff]_vars

(***************************************************************************)
(* SpecExtract: extract_pdf_links called twice on every page of up to      *)
(* MaxAnchors anchors, by a Scraper of every data set.                     *)
(***************************************************************************)
InitExtract ==
    /\ status = [i \in Items |-> Absent]
    /\ retry_count = [i \in Items |-> 0]
    /\ updated_at = [i \in Items |-> 0]
    /\ file_size = [i \in Items |-> 0]
    /\ url = [i \in Items |-> NoUrl]
    /\ current_mode = "SCRAPER"
    /\ max_concurrent_downloads = 1
    /\ max_retry_attempts = 1
    /\ InitManager
    /\ InitFreshSite
    /\ InitNoFetch
    /\ InitNoEnumeration
    /\ InitNoTransfer
    /\ InitIdleComponents
    /\ scraper_id \in DataSets
    /\ html \in HtmlPages
    /\ stable_sort \in BOOLEAN
    /\ links = NotCalled
    /\ links_again = NotCalled

NextExtract ==
    \/ ExtractPdfLinks
    \/ ExtractPdfLinksAgain

SpecExtract == InitExtract /\ [][NextExtract]_vars

(***************************************************************************)
(* SpecFetch: a download-only run over one Pending row whose task meets    *)
(* every transfer, with and without a file at its path, under both         *)
(* settings of overwrite_existing.                                         *)
(***************************************************************************)
InitFetch ==
    /\ status = [i \in Items |-> IF i = 1 THEN "PENDING" ELSE Absent]
    /\ retry_count = [i \in Items |-> 0]
    /\ updated_at = [i \in Items |-> 0]
    /\ file_size = [i \in Items |-> 0]
    /\ url = [i \in Items |-> IF i = 1 THEN FirstUrl ELSE NoUrl]
    /\ current_mode = "SCRAPER"
    /\ max_concurrent_downloads = 1
    /\ max_retry_attempts = MaxRetrySetting
    /\ InitManager
    /\ InitFreshSite
    /\ InitIdleWorkers

NextFetch ==
    \/ StartDownloadOnly(FALSE)
    \/ \E b \in BOOLEAN : SetOverwriteExisting(b)
    \/ DispLoop
    \/ DispCapacity
    \/ DispCheckActive
    \/ DispCheckExternal
    \/ DispCheckWorkers
    \/ DispCheckDb
    \/ DispSubmit
    \/ DispFinish
    \/ DispEmit
    \/ TaskStart
    \/ \E i \in Items, found \in BOOLEAN, t \in Transfers : DownloadFileOf(i, found, t)
    \/ \E i \in Items : DownloadFile(i, "exception", MaxBodyLength)
    \/ \E i \in Items : TaskRelease(i)

SpecFetch == InitFetch /\ [][NextFetch]_vars

(***************************************************************************)
(* SpecSubmit: a download-only run and a stop() at any moment, the         *)
(* dispatcher's test of stop_requested_ and its submission being separate  *)
(* steps as they are in the code.                                          *)
(***************************************************************************)
NextSubmit ==
    \/ StartDownloadOnly(FALSE)
    \/ StopBegin
    \/ StopJoinScraper
    \/ StopJoinBruteForce
    \/ StopJoinDownload
    \/ StopShutdownPool
    \/ StopFinish
    \/ DispLoop
    \/ DispCapacity
    \/ DispCheckActive
    \/ DispCheckExternal
    \/ DispCheckWorkers
    \/ DispCheckDb
    \/ DispSubmitCheck
    \/ DispSubmitAdmit
    \/ DispFinish
    \/ DispEmit
    \/ TaskStart
    \/ \E i \in Items, o \in Outcomes : DownloadFile(i, o, MaxBodyLength)
    \/ \E i \in Items : TaskRelease(i)

SpecSubmit == Init /\ [][NextSubmit]_vars

(***************************************************************************)
(* SpecComplete: a download-only run whose dispatcher finishes on its own  *)
(* and a stop() at any moment, the dispatcher's test of stop_requested_    *)
(* and its running_ = false being separate steps as they are in the code.  *)
(***************************************************************************)
NextComplete ==
    \/ StartDownloadOnly(FALSE)
    \/ StopBegin
    \/ StopJoinScraper
    \/ StopJoinBruteForce
    \/ StopJoinDownload
    \/ StopShutdownPool
    \/ StopFinish
    \/ DispLoop
    \/ DispCapacity
    \/ DispCheckActive
    \/ DispCheckExternal
    \/ DispCheckWorkers
    \/ DispCheckDb
    \/ DispSubmit
    \/ DispFinishCheck
    \/ DispFinishMark
    \/ DispEmit
    \/ TaskStart
    \/ \E i \in Items, o \in Outcomes : DownloadFile(i, o, MaxBodyLength)
    \/ \E i \in Items : TaskRelease(i)

SpecComplete == Init /\ [][NextComplete]_vars

(***************************************************************************)
(* SpecStoreFault: a download-only run and a stop() at any moment over a   *)
(* store whose update_file_status may fail when the dispatcher calls it,   *)
(* with one download at a time.                                            *)
(***************************************************************************)
InitStoreFault ==
    /\ Init
    /\ max_concurrent_downloads = 1
    /\ max_retry_attempts = 1

NextStoreFault ==
    \/ StartDownloadOnly(FALSE)
    \/ StopBegin
    \/ StopJoinScraper
    \/ StopJoinBruteForce
    \/ StopJoinDownload
    \/ StopShutdownPool
    \/ StopFinish
    \/ DispLoop
    \/ DispCapacity
    \/ DispCheckActive
    \/ DispCheckExternal
    \/ DispCheckWorkers
    \/ DispCheckDb
    \/ DispSubmit
    \/ DispSubmitUpdateFails
    \/ DispFinish
    \/ DispEmit
    \/ TaskStart
    \/ \E i \in Items, o \in Outcomes : DownloadFile(i, o, MaxBodyLength)
    \/ \E i \in Items : TaskRelease(i)

SpecStoreFault == InitStoreFault /\ [][NextStoreFault]_vars

(***************************************************************************)
(* SpecDataSets: a download-only run for one data-set and a stop() at any  *)
(* moment, over a store whose rows, Pending or Failed, are of the run's    *)
(* data-set or of another one.                                             *)
(***************************************************************************)
InitDataSets ==
    /\ status \in [Items -> {"PENDING", "FAILED"}]
    /\ retry_count = [i \in Items |-> 0]
    /\ updated_at = [i \in Items |-> NowBase]
    /\ file_size = [i \in Items |-> 0]
    /\ url = [i \in Items |-> FirstUrl]
    /\ max_concurrent_downloads \in Caps
    /\ max_retry_attempts = 1
    /\ InitManager
    /\ InitFreshSite
    /\ InitIdleProducers
    /\ InitOnePool
    /\ InitOneView
    /\ data_set \in [Items -> {CurrentDataSet, OtherDataSet}]

NextDataSets ==
    \/ StartDownloadOnly(FALSE)
    \/ StopBegin
    \/ StopJoinScraper
    \/ StopJoinBruteForce
    \/ StopJoinDownload
    \/ StopShutdownPool
    \/ StopFinish
    \/ DispLoop
    \/ DispCapacity
    \/ DispCheckActive
    \/ DispCheckExternal
    \/ DispCheckWorkers
    \/ DispCheckDb
    \/ DispSubmit
    \/ DispFinish
    \/ DispEmit
    \/ TaskStart
    \/ \E i \in Items, o \in Outcomes : DownloadFile(i, o, MaxBodyLength)
    \/ \E i \in Items : TaskRelease(i)

SpecDataSets == InitDataSets /\ [][NextDataSets]_vars

(***************************************************************************)
(* SpecEnum: the enumerator of a brute-force run over every range and      *)
(* checkpoint up to MaxId, any rows in the range, and a stop request at    *)
(* any moment.                                                             *)
(***************************************************************************)
FileIds == 0..MaxId

InitEnum ==
    /\ status = [i \in Items |-> Absent]
    /\ retry_count = [i \in Items |-> 0]
    /\ updated_at = [i \in Items |-> 0]
    /\ file_size = [i \in Items |-> 0]
    /\ url = [i \in Items |-> NoUrl]
    /\ max_concurrent_downloads = 1
    /\ max_retry_attempts = 1
    /\ InitManager
    /\ InitFreshSite
    /\ InitNoPage
    /\ InitNoFetch
    /\ InitNoTransfer
    /\ InitIdleComponents
    /\ bf = BruteForceWorkerEntry
    /\ checkpoint \in FileIds
    /\ first_file_id \in FileIds
    /\ last_file_id \in FileIds
    /\ bf_rows \in SUBSET FileIds

NextEnum ==
    \/ Start("BRUTE_FORCE")
    \/ StopBegin
    \/ StopJoinScraper
    \/ StopJoinBruteForce
    \/ BruteForceBegin
    \/ BruteForceStep
    \/ BruteForceEnd

SpecEnum == InitEnum /\ [][NextEnum]_vars

(***************************************************************************)
(* SpecEnumFault: the enumerator of SpecEnum over a store whose            *)
(* add_files_batch may fail and roll back.                                 *)
(***************************************************************************)
NextEnumFault ==
    \/ NextEnum
    \/ BruteForceStepBatchFails
    \/ BruteForceEndBatchFails

SpecEnumFault == InitEnum /\ [][NextEnumFault]_vars

(***************************************************************************)
(* SpecScrape: the scrape loop of a scraper run over a site of up to       *)
(* MaxSitePage + 1 pages, any of which fail to be fetched, with a stop     *)
(* request at any moment.  SpecScrapeFair is the same run on a site that   *)
(* does not change, with every thread scheduled again and again.           *)
(***************************************************************************)
InitScrape ==
    /\ status = [i \in Items |-> Absent]
    /\ retry_count = [i \in Items |-> 0]
    /\ updated_at = [i \in Items |-> 0]
    /\ file_size = [i \in Items |-> 0]
    /\ url = [i \in Items |-> NoUrl]
    /\ max_concurrent_downloads = 1
    /\ max_retry_attempts = 1
    /\ InitManager
    /\ InitIdleWorkers
    /\ last_valid_page \in 0..MaxSitePage
    /\ max_page_index = -1
    /\ pages = {}
    /\ scraped_pages = {}
    /\ failing_pages \in SUBSET (0..last_valid_page)

NextScrapeWorker ==
    \/ Start("SCRAPER")
    \/ ProbeStep
    \/ ProbeEnd
    \/ ScrapeTake
    \/ ScrapeJoin
    \/ ScrapeEnd

NextScrape ==
    \/ NextScrapeWorker
    \/ StopBegin
    \/ StopJoinScraper
    \/ \E p \in 0..MaxSitePage : SiteRecovers(p)

SpecScrape == InitScrape /\ [][NextScrape]_vars

SpecScrapeFair == InitScrape /\ [][NextScrapeWorker]_vars /\ WF_vars(NextScrapeWorker)

(***************************************************************************)
(* SpecPool: a ThreadPool of 1..MaxPoolThreads workers and a thread that   *)
(* hands it up to MaxPoolTasks tasks through submit and submit_detached,   *)
(* calls wait_all and calls shutdown, in every order and interleaved with  *)
(* the workers' steps; a detached task may throw.                          *)
(***************************************************************************)
InitPool ==
    /\ InitEmptyStore
    /\ InitManager
    /\ InitFreshSite
    /\ InitIdleProducers
    /\ InitOneView
    /\ InitOneDataSet
    /\ \E n \in 1..MaxPoolThreads : tp = ThreadPoolOf(n)

NextPool ==
    \/ \E t \in PoolTaskIds, kind \in {"submit", "detached"} : PoolSubmit(t, kind)
    \/ \E w \in PoolWorkers : PoolWorkerDequeue(w)
    \/ \E w \in PoolWorkers : PoolWorkerReturn(w)
    \/ \E w \in PoolWorkers : PoolWorkerBegin(w)
    \/ \E w \in PoolWorkers, throws \in BOOLEAN : PoolWorkerEnd(w, throws)
    \/ PoolWaitAll
    \/ PoolWaitAllCheck
    \/ PoolWaitAllSleep
    \/ PoolWaitAllSpuriousWake
    \/ PoolShutdown
    \/ PoolShutdownReturn

SpecPool == InitPool /\ [][NextPool]_vars

(***************************************************************************)
(* SpecScraperPool: a ScraperPool of 1..MaxViews views started once with   *)
(* every non-empty list of pages of 0..totalExpected-1, for totalExpected  *)
(* up to MaxExpected, every load ending well or badly.                     *)
(***************************************************************************)
InitScraperPool ==
    /\ InitEmptyStore
    /\ InitManager
    /\ InitFreshSite
    /\ InitIdleProducers
    /\ InitOnePool
    /\ InitOneDataSet
    /\ \E size \in 1..MaxViews : scraper_pool = ScraperPoolOf(size)

NextScraperPool ==
    \/ \E totalExpected \in 1..MaxExpected :
           \E list \in SUBSET (0..(totalExpected - 1)) \ {{}} :
               \E order \in PageOrders : StartScrapingPages(list, totalExpected, order)
    \/ \E v \in DOMAIN scraper_pool.views, ok \in BOOLEAN : OnLoadFinished(v, ok)
    \/ \E order \in PageOrders : TimerDispatchNext(order)

SpecScraperPool == InitScraperPool /\ [][NextScraperPool]_vars

(***************************************************************************)
(* SpecWire: the tasks of a run passing the timing block of download_file  *)
(* in every order, one after the other and overlapping, while up to        *)
(* MaxWireClock milliseconds pass.                                         *)
(***************************************************************************)
NextWire ==
    \/ \E i \in Items : WireDownloadBegin(i)
    \/ \E i \in Items : WireDownloadEnd(i)
    \/ WireClockTick

SpecWire == Init /\ [][NextWire]_vars

(***************************************************************************)
(* SpecProbe: scraper runs with the scraper worker in detail, over every   *)
(* site size, with and without page rows of an earlier run, one enqueued   *)
(* file, and a stop request at any moment.                                 *)
(***************************************************************************)
PageLinks == {<<>>} \cup {<<[key |-> i, url |-> FirstUrl]>> : i \in Items}

InitProbe ==
    /\ status = [i \in Items |-> IF i = 1 THEN "PENDING" ELSE Absent]
    /\ retry_count = [i \in Items |-> 0]
    /\ updated_at = [i \in Items |-> 0]
    /\ file_size = [i \in Items |-> 0]
    /\ url = [i \in Items |-> IF i = 1 THEN FirstUrl ELSE NoUrl]
    /\ current_mode = "SCRAPER"
    /\ max_concurrent_downloads = 1
    /\ max_retry_attempts = 1
    /\ InitManager
    /\ InitIdleWorkers
    /\ last_valid_page \in -1..ProbeUpperBound
    /\ max_page_index \in (IF last_valid_page < 0 THEN {-1, 1} ELSE {-1})
    /\ pages \in {{}, 0..1}
    /\ scraped_pages \in {{}, pages \cap {0}}
    /\ failing_pages = {}

NextProbe ==
    \/ Start("SCRAPER")
    \/ StopBegin
    \/ StopJoinScraper
    \/ StopJoinBruteForce
    \/ StopJoinDownload
    \/ StopShutdownPool
    \/ StopFinish
    \/ ProbeStep
    \/ ProbeEnd
    \/ \E ok \in SUBSET UnscrapedPages(MaxConcurrentScrapes), records \in PageLinks :
           ScrapeBatch(ok, records)
    \/ ScrapeEnd
    \/ DispLoop
    \/ DispCapacity
    \/ DispCheckActive
    \/ DispCheckExternal
    \/ DispCheckWorkers
    \/ DispCheckDb
    \/ DispSubmit
    \/ DispFinish
    \/ TaskStart
    \/ \E i \in Items, o \in Outcomes : DownloadFile(i, o, MaxBodyLength)
    \/ \E i \in Items : TaskRelease(i)

SpecProbe == InitProbe /\ [][NextProbe]_vars

TypeOK ==
    /\ status \in [Items -> Statuses \cup {Absent}]
    /\ active_downloads \in 0..(2 * MaxCap)
    /\ \A i \in Items : retry_count[i] \in 0..(MaxRetrySetting + 1)

(***************************************************************************)
(* Properties.                                                             *)
(***************************************************************************)

InterruptedRowsRecovered ==
    (runs > 0 /\ ~stop_requested) =>
        \A i \in Items : status[i] = "IN_PROGRESS" => HoldersOf(i) > 0

\* every producer worker of the run has left its loop
ProducersFinished == scraper_thread # "running" /\ brute_force_thread # "running"

\* C3: dispatcher termination. When the dispatcher, with no download active
\* and the external flag clear, tests the producer workers and all of them
\* have finished, it does not go back to sleep: it goes on to the store
\* re-query that lets it leave the loop.
DispatcherLeavesAfterProducers ==
    [][(dpc = "check_workers" /\ dpc' # "check_workers" /\ ProducersFinished)
          => dpc' = "check_db"]_vars

\* C4: exit safety. When the dispatcher declares the run complete (it leaves
\* without a stop request), no download is active, the external-producer flag
\* is false, no producer is still adding keys, and no row is Pending or
\* InProgress.
ExitSafety ==
    dpc = "emit" =>
        /\ active_downloads = 0
        /\ ~external_scraping_active
        /\ ProducersFinished
        /\ page_jobs = 0
        /\ StatusCount("PENDING") = 0
        /\ StatusCount("IN_PROGRESS") = 0

\* C5: admission control. The rows a tick admits are at most
\* want = max_concurrent_downloads - active_downloads, for pending and retried
\* rows alike; unless the cap is lowered, the active downloads plus the rows
\* still to be submitted never exceed max_concurrent_downloads.
AdmissionControl ==
    /\ Len(files) <= want
    /\ ~cap_lowered => active_downloads + Len(files) <= max_concurrent_downloads

\* C5, reached: the dispatcher waits for capacity, the cap being used up, with
\* a Pending row left in the store.
AdmissionControlReached ==
    /\ dpc = "capacity"
    /\ ~cap_lowered
    /\ active_downloads = max_concurrent_downloads
    /\ StatusCount("PENDING") > 0

\* C6: live concurrency. The number of tasks executing is governed by the
\* current cap, not by the pool size fixed at start: an admitted task waits in
\* the pool's queue only while a worker is about to take it or while as many
\* tasks execute as the cap allows.
ConcurrencyFollowsCap ==
    pool_tasks # <<>> =>
        (BusyWorkers < pool_workers \/ BusyWorkers >= max_concurrent_downloads)

\* C7: for every row, retry_count <= max_retries or the row is terminal.
RetryCountBounded ==
    \A i \in Items : retry_count[i] <= max_retry_attempts \/ status[i] \in Terminal

\* C8: bounded retry. Every failed attempt spends retry budget: a row that
\* fails has its retry_count raised, or is no longer retryable, so that no row
\* can be retried without bound.
FailureSpendsRetryBudget ==
    [][\A i \in Items :
          (status[i] = "IN_PROGRESS" /\ status'[i] = "FAILED")
              => (retry_count'[i] > retry_count[i] \/ retry_count'[i] >= max_retry_attempts)]_vars

\* C9: back-off. A Failed row is moved to InProgress only when
\* now >= updated_at + calculate_s_curve_backoff(retry_count).
BackoffRespected ==
    [][\A i \in Items :
          (status[i] = "FAILED" /\ status'[i] = "IN_PROGRESS")
              => now >= updated_at[i] + calculate_s_curve_backoff(retry_count[i])]_vars

\* C10: pause. While the run is paused (pause has returned; neither resume nor
\* stop has been called) no row is moved to InProgress.
PauseHoldsDispatch ==
    [][(paused /\ paused')
          => \A i \in Items : status'[i] = "IN_PROGRESS" => status[i] = "IN_PROGRESS"]_vars

\* C11: resume liveness. No worker is left blocked in the pause wait once the
\* run is no longer paused: a dispatcher blocked on the pause condition is
\* blocked only while the run is paused (or, in passing, being stopped).
ResumeWakesWaiters ==
    dpc = "pause_blocked" => (paused \/ stop_requested)

\* C12: stop terminates. When stop() has come to join the dispatcher thread,
\* the dispatcher is not blocked in the pause wait (nothing would wake it, and
\* the join would never return).
StopJoinNotBlocked ==
    (stop_pc = "join_download" /\ download_joinable) => dpc # "pause_blocked"

\* C13: stop ordering. The download pool is shut down only after the
\* dispatcher thread has terminated, in every kind of run: whenever the pool
\* is stopped the dispatcher is no longer running.
DispatcherEndsBeforePoolShutdown ==
    pool_stop => dpc \in {"none", "exited"}

\* C14: stop is idempotent. A call of stop() on a manager that is not running
\* (never started, finished, or already stopped) changes no state: it joins
\* nothing, shuts nothing down and emits no completion event.
StopIdempotent ==
    [][((StopBegin \/ StopNotRunning) /\ ~running) => UNCHANGED vars]_vars

\* C14, reached: a stop() has completed (its completion event was emitted), so
\* that a further call finds the manager not running.
StopIdempotentReached ==
    /\ ~running
    /\ stop_requested
    /\ stop_pc = "idle"
    /\ on_complete_calls = 1

\* C15: across the end of a run and a new start on the same store, a key that
\* is Completed stays Completed: neither the new start nor any step of the new
\* run takes a row out of Completed.
CompletedSurvivesRestart ==
    [][runs' > MaxRuns =>
          \A i \in Items : status[i] = "COMPLETED" => status'[i] = "COMPLETED"]_vars

\* C15, reached: the second run has a download task running while a row that
\* was completed in the first run (the session's byte count is still 0) is in
\* the store.
CompletedSurvivesRestartReached ==
    /\ runs = MaxRuns + MaxRestarts
    /\ running
    /\ bytes_this_session = 0
    /\ \E i, j \in Items : status[i] = "COMPLETED" /\ task_running[j] = 1

BytesSessionMonotonic ==
    [][/\ runs' # runs => bytes_this_session' = 0
       /\ runs' = runs => bytes_this_session' >= bytes_this_session
       /\ \A i \in Items :
             (status[i] # "COMPLETED" /\ status'[i] = "COMPLETED")
                 => /\ file_size'[i] \in BodyLengths
                    /\ bytes_this_session' = bytes_this_session + file_size'[i]
       /\ (runs' = runs /\ bytes_this_session' # bytes_this_session)
             => \E i \in Items : status[i] # "COMPLETED" /\ status'[i] = "COMPLETED"]_vars

\* C17, reached: in the second run, of two Completed rows of different sizes
\* the session has counted one only: the count was set back at the start and
\* has grown by one body since.
BytesSessionMonotonicReached ==
    /\ runs = MaxRuns + MaxRestarts
    /\ \E i, j \in Items :
          /\ status[i] = "COMPLETED" /\ status[j] = "COMPLETED"
          /\ file_size[i] # file_size[j]
          /\ bytes_this_session = file_size[j]

\* the first record of a batch that names key i
FirstRecordOf(records, i) ==
    records[CHOOSE k \in 1..Len(records) :
                /\ records[k].key = i
                /\ \A m \in 1..(k - 1) : records[m].key # i]

\* C18: add_files_batch is insert-or-ignore on the key. For every batch: a key
\* that has a row keeps its row (status, url, retry_count, file_size,
\* updated_at) unchanged; a key without a row gets the url of its first record
\* in the batch (the first observation wins); keys not in the batch are not
\* touched; and applying the batch a second time changes nothing.
BatchInsertOrIgnore ==
    \A records \in Batches :
        LET once == InsertOrIgnore(Store, records, now)
            twice == InsertOrIgnore(once, records, now + TickSeconds)
            keys == {records[k].key : k \in 1..Len(records)}
        IN /\ twice = once
           /\ \A i \in Items :
                 /\ status[i] # Absent =>
                       /\ once.status[i] = status[i]
                       /\ once.url[i] = url[i]
                       /\ once.retry_count[i] = retry_count[i]
                       /\ once.file_size[i] = file_size[i]
                       /\ once.updated_at[i] = updated_at[i]
                 /\ (status[i] = Absent /\ i \in keys) =>
                       /\ once.status[i] = "PENDING"
                       /\ once.url[i] = FirstRecordOf(records, i).url
                 /\ (status[i] = Absent /\ i \notin keys) => once.status[i] = Absent

\* C18, reached: the scraper is still committing pages while the store holds a
\* Completed row and a Failed row with a spent retry, one of them under the
\* other url.
BatchInsertOrIgnoreReached ==
    /\ scraper_thread = "running"
    /\ \E i, j \in Items :
          /\ status[i] = "COMPLETED"
          /\ status[j] = "FAILED" /\ retry_count[j] > 0
          /\ url[i] # url[j]

\* C19: every row in state NotFound (a 404, or a success with an empty body)
\* has no file at its local_path.
NotFoundHasNoFile ==
    \A i \in Items : status[i] = "NOT_FOUND" => local_file[i] = "absent"

\* C19, reached: a task has ended in NotFound and has finished, in a run that
\* overwrites existing files, while another row has a file with content.
NotFoundHasNoFileReached ==
    /\ overwrite_existing
    /\ \E i, j \in Items :
          /\ status[i] = "NOT_FOUND" /\ task_running[i] = 0 /\ task_releasing[i] = 0
          /\ local_file[j] = "content"

\* the retry counts the claim is about
BackoffDomain == 0..MaxBackoffRetry

ProbeConverges ==
    [][(sw.pc = "probe" /\ sw'.pc = "scrape" /\ sw.low > sw.high /\ last_valid_page >= 0)
        => /\ sw'.detected_max_page = last_valid_page
           /\ pages' = pages \cup (0..last_valid_page)
           /\ total_pages' = last_valid_page + 1]_vars

\* C21 witness: every page up to the upper bound is valid, the probe has
\* ended with the upper bound, and the page rows are exactly 0..upper bound.
ProbeConvergesReached ==
    /\ last_valid_page = ProbeUpperBound
    /\ sw.pc = "scrape"
    /\ sw.low > sw.high
    /\ sw.detected_max_page = ProbeUpperBound
    /\ pages = 0..ProbeUpperBound
    /\ Cardinality(pages) = ProbeUpperBound + 1

\* C22: when the probe ends without a valid page and the configuration has
\* no max page index, the worker goes on with total_pages = 0 and no new page
\* row, and the condition is reported by one call of the error observer.
ProbeFailureReported ==
    [][(sw.pc = "probe" /\ sw'.pc = "scrape" /\ sw.low > sw.high
            /\ sw.detected_max_page < 0 /\ max_page_index < 0)
        => /\ total_pages' = 0
           /\ pages' = pages
           /\ on_error_calls' = on_error_calls + 1]_vars

\* C30: a scraper worker that starts with page rows in the store makes no
\* probe fetch and leaves the set of page rows as it is.
ResumedRunSkipsProbe ==
    [][(scraper_thread = "running" /\ sw.pc = "probe" /\ pages # {})
        => /\ sw'.low = sw.low
           /\ sw'.high = sw.high
           /\ pages' = pages]_vars

\* C23: every link extract_pdf_links returns for a Scraper of data set n
\* comes from a href whose folder is the folder of data set n.
DataSetFiltering ==
    links.called =>
        \A k \in 1..Len(links.list) : links.list[k].url.folder = scraper_id

\* C24: extract_pdf_links returns the file ids of the matching anchors, each
\* once, in ascending order, and a second call on the same page returns the
\* same list.
KeysOfMatches == {html[k].key : k \in {j \in 1..Len(html) : PdfRegexMatches(scraper_id, html[j])}}

StatedDisposition(f) ==
    IF f.found /\ ~overwrite_existing /\ ~f.fetch THEN "SKIPPED"
    ELSE IF f.http_code = 404 THEN "NOT_FOUND"
    ELSE IF f.http_code \in {403, 429} THEN "FAILED"
    ELSE IF f.success /\ f.content_length > 0 THEN "COMPLETED"
    ELSE IF f.success /\ f.content_length = 0 THEN "NOT_FOUND"
    ELSE "FAILED"

PerItemDisposition ==
    [][\A i \in Items :
         (task_releasing'[i] > task_releasing[i] /\ fetched'[i] # fetched[i]) =>
            /\ status'[i] = StatedDisposition(fetched'[i])
            /\ (fetched'[i].found /\ ~overwrite_existing) => ~fetched'[i].fetch
            /\ status'[i] = "COMPLETED" => file_size'[i] = fetched'[i].content_length
            /\ status'[i] \notin {"COMPLETED", "SKIPPED"} => local_file'[i] = "absent"]_vars

\* C25 witness: a task met a 404 whose body was not empty, with a file at
\* the path that was to be overwritten; the item is NotFound and no file is
\* left.
PerItemDispositionReached ==
    \E i \in Items :
        /\ fetched[i].fetch /\ fetched[i].found
        /\ fetched[i].http_code = 404
        /\ fetched[i].content_length > 0
        /\ status[i] = "NOT_FOUND"
        /\ local_file[i] = "absent"

\* C26: each time a download task sets its item to Failed, whatever the
\* cause, the retry_count of the item is one more than before.
EveryFailureCounts ==
    [][\A i \in Items :
         (task_releasing'[i] > task_releasing[i] /\ status'[i] = "FAILED")
            => retry_count'[i] = retry_count[i] + 1]_vars

\* C27: active_downloads is the number of admitted items whose task has not
\* ended: the tasks waiting in the pool, those inside download_file and
\* those about to decrement.
TasksNotEnded ==
    SumOver([i \in Items |-> CountInSeq(pool_tasks, i) + task_running[i] + task_releasing[i]],
            Items)

ActiveDownloadsAccounting ==
    /\ active_downloads >= 0
    /\ active_downloads = TasksNotEnded

\* C28: an enumerator that ran to the end of its range has looked up each id
\* from max(checkpoint read, first_file_id) to last_file_id once, in
\* increasing order, and no other id: one id when the range has one, none
\* when it is empty.
EnumeratedRange ==
    LET from == IF bf.read > first_file_id THEN bf.read ELSE first_file_id
    IN [k \in 1..(IF last_file_id >= from THEN last_file_id - from + 1 ELSE 0) |-> from + k - 1]

EnumeratorCoverage ==
    (bf.pc = "done" /\ bf.id > last_file_id) => bf.checked = EnumeratedRange

\* C28 witness: resumed from a checkpoint inside the range, the enumerator has
\* looked up the ids from the checkpoint to the last id.
EnumeratorCoverageReached ==
    /\ bf.pc = "done"
    /\ bf.id > last_file_id
    /\ first_file_id < bf.read /\ bf.read < last_file_id
    /\ Len(bf.checked) = last_file_id - bf.read + 1
    /\ bf.checked[1] = bf.read

\* C29: the persisted checkpoint never decreases in a run, and when the
\* enumerator worker has ended the checkpoint is the last id it looked up.
EnumeratorCheckpoint ==
    [][/\ (bf.pc # "begin" /\ bf'.pc # "begin") => checkpoint' >= checkpoint
       /\ (bf'.pc = "done" /\ bf'.checked # <<>>)
             => checkpoint' = bf'.checked[Len(bf'.checked)]]_vars

\* C31: a page fetch that fails does not end the scraper worker: after the
\* turn the page is still unscraped, only keys of the pages that were fetched
\* have been inserted, the page is in the next take, and the worker leaves
\* its loop only with no unscraped page left or on a stop request.
FailedPageIsRetried ==
    [][/\ (sw.pc = "scraping" /\ sw'.pc = "scrape") =>
            /\ sw'.pc # "done" /\ scraper_thread' = "running"
            /\ \A p \in sw.taken \cap failing_pages :
                  p \notin scraped_pages' /\ p \in TakePages(MaxConcurrentScrapes)'
            /\ {i \in Items : status[i] = Absent /\ status'[i] # Absent}
                  \subseteq {KeyOnPage(p) : p \in sw.taken \ failing_pages}
       /\ (sw.pc = "scrape" /\ sw'.pc = "done") =>
            (stop_requested \/ pages \ scraped_pages = {})]_vars

\* C31 witness: the fetch of a page has failed in one turn, and a later turn
\* has taken the page again.
FailedPageIsRetriedReached ==
    /\ sw.pc = "scraping"
    /\ \E p \in sw.taken \cap failing_pages : \E q \in scraped_pages : q > p

\* C40: every page with a row whose fetch succeeds is scraped in the end,
\* whatever pages keep failing.
NoPageStarves ==
    \A p \in 0..MaxSitePage :
        (p \in pages /\ p \notin failing_pages) ~> (p \in scraped_pages)

\* C32: active_transfer_wall_ms measures only time during which at least
\* one download was active: it never exceeds the milliseconds that passed
\* with a task between the two halves of the timing block, so an idle gap
\* between two bursts adds nothing to it.
WireTimeExcludesIdleGaps == wire.active_transfer_wall_ms <= wire.busy_ms

\* C33: shutdown drains the queue.  Once shutdown() has returned, no
\* accepted task is left unexecuted and every worker has exited; a worker
\* whose task ends, by throwing too, waits for the next task; and on a
\* stopped pool submit throws and submit_detached drops the task, the queue
\* left as it is.
ShutdownDrainsQueue ==
    /\ [](tp.shutdown_returned =>
            /\ \A t \in PoolTaskIds : tp.outcome[t] # "accepted"
            /\ \A w \in PoolWorkers : tp.workers[w].pc = "exited")
    /\ [][/\ \A w \in PoolWorkers :
               (tp.workers[w].pc = "running" /\ tp'.workers[w].pc # "running") =>
                   tp'.workers[w].pc = "wait"
          /\ \A t \in PoolTaskIds :
               (tp.stop /\ tp.outcome[t] = "none" /\ tp'.outcome[t] # "none") =>
                   /\ tp'.outcome[t] = (IF tp'.kind[t] = "submit" THEN "refused" ELSE "dropped")
                   /\ tp'.tasks = tp.tasks]_vars

\* C33 witness: shutdown() has returned on a pool that had a task queued when
\* it was called, that task threw, and afterwards a submit threw and a
\* submit_detached was dropped.
ShutdownDrainsQueueReached ==
    /\ tp.shutdown_returned
    /\ \E t \in tp.at_shutdown \cap tp.caught : tp.outcome[t] = "executed"
    /\ \E t \in PoolTaskIds : tp.outcome[t] = "refused"
    /\ \E t \in PoolTaskIds : tp.outcome[t] = "dropped"

\* C34: wait_all returns only when every task submitted before the call has
\* finished executing.
WaitAllWaitsForTasks ==
    tp.wait_all_returned => \A t \in tp.before_wait_all : tp.outcome[t] = "executed"

\* C35: after startScrapingPages, allPagesComplete has been emitted as soon
\* as every page of the given list has been scraped, also for a list that is
\* a proper subset of 0..totalExpected-1, and it is not emitted while a
\* listed page is pending, in progress or failed and not scraped.
ScraperPoolCompletion ==
    /\ [](scraper_pool.listed # {} /\ scraper_pool.listed \subseteq scraper_pool.scrapedPages
            => scraper_pool.allPagesComplete > 0)
    /\ [][scraper_pool'.allPagesComplete > scraper_pool.allPagesComplete =>
             scraper_pool.listed \subseteq scraper_pool'.scrapedPages]_vars

\* C36: the completion event is delivered at most once per run: on_complete
\* is invoked by the dispatcher or by stop(), never by both.
CompletionDeliveredOnce == on_complete_calls <= 1

\* C37: the dispatcher submits a task for a row, and counts it in
\* active_downloads, only when the store has recorded the row as InProgress.
SubmitsOnlyRecordedRows ==
    [][(active_downloads' > active_downloads \/ Len(pool_tasks') > Len(pool_tasks)) =>
          status'[Head(files)] = "IN_PROGRESS"]_vars

\* C38: data-set isolation.  During a run for a data-set the rows of other
\* data-sets keep their status, and no task downloads them.
DataSetIsolation ==
    /\ [][\A i \in Items : data_set[i] # CurrentDataSet => status'[i] = status[i]]_vars
    /\ [](\A i \in Items : data_set[i] # CurrentDataSet =>
              task_running[i] = 0 /\ CountInSeq(pool_tasks, i) = 0)

\* C39: the persisted checkpoint never gets ahead of the committed work:
\* whenever the enumerator has committed a batch and written the checkpoint,
\* every id it has processed in this run up to the checkpoint has its row.
CheckpointBehindCommittedWork ==
    [][(bf.batch # <<>> /\ bf'.batch = <<>>) =>
          \A k \in 1..Len(bf'.checked) :
              bf'.checked[k] <= checkpoint' => bf'.checked[k] \in bf_rows']_vars

====
